---- MODULE Spec2Model ----
(***************************************************************************)
(* mali-signali: the reactive store (signals, memos, effects, batches).    *)
(* The store is single-threaded and synchronous; the nesting of calls      *)
(* (write -> flush -> update -> body -> write ...) is modelled by an        *)
(* explicit call stack of frames, one step per statement group.            *)
(***************************************************************************)
EXTENDS Integers, Sequences, FiniteSets, TLC

\* ------------------------------------------------------------------ bounds
NSig == 2
NEff == 3
MaxVal == 2
MaxBatch == 2
MaxBatchOps == 2

\* value of a memo's hidden signal before its first computation
Undef == -1

Signals == 1..NSig
Effects == 1..NEff
Hidden(e) == NSig + e
AllSignals == 1..(NSig + NEff)
Values == 0..(MaxVal - 1)

\* equal(): the objects that exist, the own keys an object may carry, the
\* property assignments made to build the operands, the maxDepth options
NObj == 4
NKey == 2
MaxProps == 4
MaxDepthArg == 2

\* JavaScript values: a positive number is a reference to an object, the
\* others are primitives (undefined, the number 1); Absent marks a key
\* that is not an own property
Undefined == 0
One == -1
Absent == -2
Prims == {Undefined, One}
ObjIds == 1..NObj
\* the operands of equal() and the objects nested in them
Roots == {1, 2}
Inner == 3..NObj
Keys == 1..NKey
\* maxDepth: Infinity is any depth no recursion reaches
MaxCalls == 1 + NKey * NObj * NObj
Infinity == MaxCalls + 1
DepthArgs == (1..MaxDepthArg) \cup {Infinity}

\* ------------------------------------------------- ordered sets (JS Set)
Range(q) == {q[i] : i \in 1..Len(q)}

\* (mutant) adding an element that is in the set moves it to the end
SetAddMoves(q, x) == Append(SelectSeq(q, LAMBDA y : y # x), x)

SetAdd(q, x) == IF x \in Range(q) THEN q ELSE Append(q, x)

SetDelete(q, x) == SelectSeq(q, LAMBDA y : y # x)

RECURSIVE SetAddAll(_, _)
SetAddAll(q, xs) == IF xs = <<>> THEN q ELSE SetAddAll(SetAdd(q, Head(xs)), Tail(xs))

Last(q) == q[Len(q)]

Front(q) == SubSeq(q, 1, Len(q) - 1)

\* --------------------------------------------- user code: effect bodies
\* A body is a straight-line program over an accumulator (the local value
\* the user function computes from what it reads).
Rd(s) == [op |-> "read", sig |-> s, k |-> 0]
RdIf(s, k) == [op |-> "readIf", sig |-> s, k |-> k]
\* untracked(reader), where reader returns the value of s, or throws if it is k
URdThrowIf(s, k) == [op |-> "untracked", sig |-> s, k |-> k]
URd(s) == URdThrowIf(s, MaxVal)
\* untracked(reader), where reader calls the setter of s with k
UWr(s, k) == [op |-> "untrackedWrite", sig |-> s, k |-> k]
Wr(s, k) == [op |-> "write", sig |-> s, k |-> k]
ThrowIf(k) == [op |-> "throwIf", sig |-> 0, k |-> k]
\* if the value computed so far is k, the body calls context.cancel()
CancelIf(k) == [op |-> "cancelIf", sig |-> 0, k |-> k]
\* b(): a read of the signal of the second store
RdO == [op |-> "readOther", sig |-> 0, k |-> 0]
\* setB(computed + k): a write of the signal of the second store
WrO(k) == [op |-> "writeOther", sig |-> 0, k |-> k]

Plain(prog, ret, token) ==
    [isMemo |-> FALSE, prog |-> prog, ret |-> ret, token |-> token, sig |-> 0]

\* memo(compute): the effect body is () => write(compute())
Memo(e, compute) ==
    [isMemo |-> TRUE, prog |-> compute \o <<Wr(Hidden(e), 0)>>, ret |-> "none",
     token |-> "none", sig |-> Hidden(e)]

NoConf == [isMemo |-> FALSE, prog |-> <<>>, ret |-> "none", token |-> "none", sig |-> 0]

\* effect i of the store is created from one of these (a bounded menu of
\* user functions; memo k can only be read by effects created after it)
Menu(e, conf) ==
    LET prevMemo == e > 1 /\ conf[e - 1].isMemo
    IN  IF e = 1
        THEN { Memo(e, <<Rd(1)>>),
               Memo(e, <<Rd(1), Rd(2)>>),
               Memo(e, <<Rd(1), RdIf(2, 1)>>),
               Memo(e, <<Rd(1), ThrowIf(1)>>),
               Plain(<<Rd(1)>>, "ok", "live"),
               Plain(<<Rd(2), Wr(1, 0)>>, "none", "none"),
               Plain(<<URd(1), Rd(2), Wr(1, 0)>>, "none", "none"),
               Plain(<<Rd(2), ThrowIf(1)>>, "none", "none"),
               [Memo(e, <<Rd(1)>>) EXCEPT !.token = "aborted"] }
        ELSE IF e = 2
        THEN { Plain(<<Rd(1), RdIf(2, 0)>>, "none", "none"),
               Plain(<<Rd(1), Wr(2, 1)>>, "none", "none"),
               Plain(<<Rd(1), Wr(1, 1)>>, "none", "none"),
               Plain(<<Rd(1)>>, "throws", "none"),
               Plain(<<Rd(1), URdThrowIf(2, 1)>>, "none", "none"),
               Plain(<<Rd(2), ThrowIf(1)>>, "ok", "none"),
               Plain(<<Rd(1)>>, "ok", "aborted"),
               Plain(<<Rd(1), RdIf(2, 0), CancelIf(1)>>, "ok", "none"),
               Plain(<<Rd(1), UWr(2, 1)>>, "none", "none") }
             \cup (IF prevMemo THEN {Memo(e, <<Rd(Hidden(e - 1))>>)} ELSE {})
        ELSE IF prevMemo
        THEN { Plain(<<Rd(1), Rd(Hidden(e - 1))>>, "none", "none"),
               Plain(<<Rd(Hidden(e - 1))>>, "ok", "none"),
               Plain(<<Rd(1), Rd(1)>>, "none", "none") }
        ELSE {}

\* the user functions of the effects of the first store when a second
\* store is in use
StoresMenu(e, conf) ==
    LET prevMemo == e > 1 /\ conf[e - 1].isMemo
    IN  IF e = 1
        THEN { Plain(<<Rd(1), RdO>>, "ok", "none"),
               Plain(<<Rd(2), WrO(0)>>, "none", "none"),
               Memo(e, <<Rd(1)>>) }
        ELSE IF e = 2
        THEN { Plain(<<Rd(1)>>, "ok", "none"),
               Plain(<<RdO, RdIf(2, 0)>>, "none", "none") }
             \cup (IF prevMemo THEN {Plain(<<Rd(Hidden(e - 1))>>, "none", "none")} ELSE {})
        ELSE {}

\* argument of update(): a value, or a function of the previous value
Direct(v) == [isFn |-> FALSE, k |-> v]
Fn(k) == [isFn |-> TRUE, k |-> k]
UpdateArgs == {Direct(v) : v \in Values} \cup {Fn(1)}

\* ------------------------------------------------------------------ state
VARIABLES
    value,            \* signal -> current value
    sigDeps,          \* signal -> its `dependencies` (ordered set of effects)
    pendingEffects,   \* #pendingEffects (ordered set)
    runningEffects,   \* #runningEffects (stack)
    batchLevel,       \* #batchLevel
    isUpdating,       \* #isUpdating
    isTracking,       \* #isTracking
    fxCount,          \* effects 1..fxCount have been created
    fxConf,           \* effect -> its user function and options
    fxDeps,           \* effect -> its `dependencies` (signals it holds an unlinker for)
    onCleanup,        \* effect -> the cleanup callable stored by the last run
    token,            \* effect -> state of its AbortSignal
    handle,           \* effect -> the caller holds its cancel handle
    inactive,         \* effect -> torn down through context.cancel() or unlink()
    store2,           \* a second store with one signal b and one effect () => { a(); b() }
    objects,          \* the JavaScript objects handed to equal(): object -> kind, properties
    call,             \* the call of equal() made last, with what it returned
    cstack,           \* call stack of the running operation
    exc,              \* exception in flight, or raised to the caller of the last operation
    evt,              \* the statement executed last
    bodyCalls,        \* effect -> invocations of its body in the current operation
    cleanupCalls,     \* effect -> invocations of its user cleanup in the current operation
    errorLog,         \* console.error calls in the current operation
    readInRun,        \* effect -> signals it read (tracked) in its latest run
    readBefore,       \* effect -> signals it read (tracked) in its earlier runs
    cancelled,        \* effect -> cancelled through handle or abort
    op                \* the top-level operation in progress (or completed last)

storeVars == <<value, sigDeps, pendingEffects, runningEffects, batchLevel, isUpdating, isTracking>>
fxVars == <<fxCount, fxConf, fxDeps, onCleanup, token, handle, inactive>>
ghostVars == <<bodyCalls, cleanupCalls, errorLog, readInRun, readBefore, cancelled, op>>
vars == <<storeVars, fxVars, store2, objects, call, cstack, exc, evt, ghostVars>>

Frame(kind, phase, fx, idx, list) ==
    [kind |-> kind, phase |-> phase, fx |-> fx, idx |-> idx, acc |-> 0,
     list |-> list, exc |-> "none", was |-> TRUE, from |-> "none", k |-> 0,
     cancel |-> FALSE]

FlushCall == Frame("flush", "enter", 0, 1, <<>>)
UpdateCall(e, from) == [Frame("update", "start", e, 1, <<>>) EXCEPT !.from = from]
BatchCall == Frame("batch", "body", 0, IF cstack = <<>> THEN 1 ELSE cstack[Len(cstack)].idx, <<>>)
UntrackedCall(s, k) ==
    [Frame("untracked", "call", 0, s, <<>>) EXCEPT !.was = isTracking, !.k = k]
\* the reader of an untracked call is about to call the setter of s with k
UntrackedWriteCall(s, k) == [UntrackedCall(s, k) EXCEPT !.phase = "write"]

Event(name, fx, sig, flag) ==
    [name |-> name, fx |-> fx, sig |-> sig, flag |-> flag, val |-> 0]
\* a read or write of a signal, with the value read or written
Access(name, fx, sig, flag, val) ==
    [name |-> name, fx |-> fx, sig |-> sig, flag |-> flag, val |-> val]

\* the events of a call of a signal's setter by an effect body
WriteEvents == {"write", "untrackedWrite"}

Top == cstack[Len(cstack)]
Callers == SubSeq(cstack, 1, Len(cstack) - 1)
SetTop(f) == [cstack EXCEPT ![Len(cstack)] = f]

AtTop == cstack = <<>>
InBatchBody == cstack # <<>> /\ exc = "none" /\ Top.kind = "batch" /\ Top.phase = "body"
\* user code outside effect bodies: the top level, or the body of a batch
\* (the bodies of the open batches perform at most MaxBatchOps operations
\* together, counted in the frame of the innermost)
UserCtx == AtTop \/ (InBatchBody /\ Top.idx <= MaxBatchOps)
UserStack == IF AtTop THEN cstack ELSE SetTop([Top EXCEPT !.idx = @ + 1])
Running(kind, phase) == cstack # <<>> /\ exc = "none" /\ Top.kind = kind /\ Top.phase = phase

Operation(kind, sig, changed, targets) ==
    [kind |-> kind, sig |-> sig, changed |-> changed, targets |-> targets,
     wasUpdating |-> isUpdating, writesOnly |-> TRUE, threw |-> FALSE, cyclic |-> FALSE]
\* a cancel or an abort inside a batch body
NoteCancel == IF AtTop THEN Operation("cancel", 0, FALSE, {}) ELSE [op EXCEPT !.writesOnly = FALSE]
\* the body of the outermost batch exits with these effects pending
NoteBatchExit(thrown) ==
    op' = IF batchLevel = 1
          THEN [op EXCEPT !.targets = Range(pendingEffects), !.threw = thrown # "none"]
          ELSE op
StartOp(kind, sig, changed, targets) ==
    op' = IF AtTop THEN Operation(kind, sig, changed, targets) ELSE op

ZeroCalls == [e \in Effects |-> 0]
\* the per-operation counters restart when a new top-level operation starts
OpBase(counter, zero) == IF AtTop THEN zero ELSE counter

\* `{}` and `[]`: a new object without own properties
NewObject(kind) == [kind |-> kind, props |-> [k \in Keys |-> Absent]]
NoCall == [fn |-> "none", a |-> 0, b |-> 0, maxDepth |-> 0, eq |-> FALSE,
           calls |-> 0, overflow |-> FALSE]

Init ==
    /\ value = [s \in AllSignals |-> IF s \in Signals THEN 0 ELSE Undef]
    /\ sigDeps = [s \in AllSignals |-> <<>>]
    /\ pendingEffects = <<>>
    /\ runningEffects = <<>>
    /\ batchLevel = 0
    /\ isUpdating = FALSE
    /\ isTracking = TRUE
    /\ fxCount = 0
    /\ fxConf = [e \in Effects |-> NoConf]
    /\ fxDeps = [e \in Effects |-> {}]
    /\ onCleanup = [e \in Effects |-> "none"]
    /\ token = [e \in Effects |-> "none"]
    /\ handle = [e \in Effects |-> FALSE]
    /\ inactive = [e \in Effects |-> FALSE]
    /\ store2 = [value |-> 0, dependencies |-> <<>>, created |-> FALSE, calls |-> 0]
    /\ objects = [o \in ObjIds |-> NewObject("Object")]
    /\ call = NoCall
    /\ cstack = <<>>
    /\ exc = "none"
    /\ evt = Event("init", 0, 0, FALSE)
    /\ bodyCalls = ZeroCalls
    /\ cleanupCalls = ZeroCalls
    /\ errorLog = 0
    /\ readInRun = [e \in Effects |-> {}]
    /\ readBefore = [e \in Effects |-> {}]
    /\ cancelled = [e \in Effects |-> FALSE]
    /\ op = Operation("none", 0, FALSE, {})

\* --------------------------------------------------------------- signals
\* (mutant) an equality predicate that never reports equal
EqualsNever(a, b) == FALSE

\* the `equals` option; the default structuralEqual is Object.is on primitives
Equals(a, b) == a = b

Resolve(arg, prev) == IF arg.isFn THEN (prev + arg.k) % MaxVal ELSE arg.k

\* what a body computes with a value it read (an uninitialised memo adds nothing)
Add(acc, v) == IF v = Undef THEN acc ELSE (acc + v) % MaxVal

\* read(): registers the running effect as a dependency, both ways
Tracked == isTracking /\ runningEffects # <<>>

\* (mutant) read() hands out the unlinker without adding the dependency
SignalReadNoDependency(s) ==
    IF Tracked /\ Last(runningEffects) \notin Range(sigDeps[s])
    THEN /\ fxDeps' = [fxDeps EXCEPT ![Last(runningEffects)] = @ \cup {s}]
         /\ UNCHANGED sigDeps
    ELSE UNCHANGED <<sigDeps, fxDeps>>

\* (mutant) read() adds the running effect without the has() test
SignalReadDuplicates(s) ==
    IF Tracked
    THEN /\ sigDeps' = [sigDeps EXCEPT ![s] = Append(@, Last(runningEffects))]
         /\ fxDeps' = [fxDeps EXCEPT ![Last(runningEffects)] = @ \cup {s}]
    ELSE UNCHANGED <<sigDeps, fxDeps>>

SignalRead(s) ==
    IF Tracked /\ Last(runningEffects) \notin Range(sigDeps[s])
    THEN /\ sigDeps' = [sigDeps EXCEPT ![s] = Append(@, Last(runningEffects))]
         /\ fxDeps' = [fxDeps EXCEPT ![Last(runningEffects)] = @ \cup {s}]
    ELSE UNCHANGED <<sigDeps, fxDeps>>

NoteRead(s) ==
    readInRun' = IF Tracked
                 THEN [readInRun EXCEPT ![Last(runningEffects)] = @ \cup {s}]
                 ELSE readInRun

\* (mutant) write() schedules the dependencies before it compares the values
SignalWriteAlwaysNotifies(s, new, stk) ==
    /\ value' = [value EXCEPT ![s] = new]
    /\ pendingEffects' = SetAddAll(pendingEffects, sigDeps[s])
    /\ cstack' = Append(stk, FlushCall)

\* write(): stk is the caller's stack, to which the call of #flush is added
SignalWrite(s, new, stk) ==
    IF Equals(value[s], new)
    THEN /\ UNCHANGED <<value, pendingEffects>>
         /\ cstack' = stk
    ELSE /\ value' = [value EXCEPT ![s] = new]
         /\ pendingEffects' = SetAddAll(pendingEffects, sigDeps[s])
         /\ cstack' = Append(stk, FlushCall)

\* (mutant) cleanup forgets to call the unlinkers
CleanupKeepsEdges(e, calls, log) ==
    /\ UNCHANGED sigDeps
    /\ fxDeps' = [fxDeps EXCEPT ![e] = {}]
    /\ cleanupCalls' = IF onCleanup[e] # "none" THEN [calls EXCEPT ![e] = @ + 1] ELSE calls
    /\ errorLog' = IF onCleanup[e] = "throws" THEN log + 1 ELSE log

\* (mutant) cleanup unlinks but does not call the stored cleanup function
CleanupSkipsCallback(e, calls, log) ==
    /\ sigDeps' = [s \in AllSignals |->
                      IF s \in fxDeps[e] THEN SetDelete(sigDeps[s], e) ELSE sigDeps[s]]
    /\ fxDeps' = [fxDeps EXCEPT ![e] = {}]
    /\ cleanupCalls' = calls
    /\ errorLog' = log

\* (mutant) cleanup swallows the failure of the cleanup function silently
CleanupSilent(e, calls, log) ==
    /\ sigDeps' = [s \in AllSignals |->
                      IF s \in fxDeps[e] THEN SetDelete(sigDeps[s], e) ELSE sigDeps[s]]
    /\ fxDeps' = [fxDeps EXCEPT ![e] = {}]
    /\ cleanupCalls' = IF onCleanup[e] # "none" THEN [calls EXCEPT ![e] = @ + 1] ELSE calls
    /\ errorLog' = log

\* the closure `cleanup` of #createEffect
Cleanup(e, calls, log) ==
    /\ sigDeps' = [s \in AllSignals |->
                      IF s \in fxDeps[e] THEN SetDelete(sigDeps[s], e) ELSE sigDeps[s]]
    /\ fxDeps' = [fxDeps EXCEPT ![e] = {}]
    /\ cleanupCalls' = IF onCleanup[e] # "none" THEN [calls EXCEPT ![e] = @ + 1] ELSE calls
    /\ errorLog' = IF onCleanup[e] = "throws" THEN log + 1 ELSE log

\* ------------------------------------------------- operations of the user
Update(s, arg) ==
    /\ UserCtx
    /\ SignalWrite(s, Resolve(arg, value[s]), UserStack)
    /\ exc' = "none"
    /\ evt' = Access("write", 0, s, value'[s] # value[s], Resolve(arg, value[s]))
    /\ StartOp("update", s, value'[s] # value[s], Range(sigDeps[s]))
    /\ bodyCalls' = OpBase(bodyCalls, ZeroCalls)
    /\ cleanupCalls' = OpBase(cleanupCalls, ZeroCalls)
    /\ errorLog' = OpBase(errorLog, 0)
    /\ UNCHANGED <<sigDeps, runningEffects, batchLevel, isUpdating, isTracking, fxVars, store2, objects, call,
                   readInRun, readBefore, cancelled>>

\* (mutant) the state of the AbortSignal is not looked at
AbortedIgnored(conf) == FALSE

\* signal && signal.aborted, when effect() or memo() is called
Aborted(conf) == conf.token = "aborted"

CreateEffect(conf) ==
    /\ AtTop
    /\ fxCount < NEff
    /\ fxCount' = fxCount + 1
    /\ fxConf' = [fxConf EXCEPT ![fxCount + 1] = conf]
    /\ token' = [token EXCEPT ![fxCount + 1] = conf.token]
    /\ IF Aborted(conf)
       THEN /\ cstack' = UserStack
            /\ handle' = [handle EXCEPT ![fxCount + 1] = ~conf.isMemo]
            /\ evt' = Event("createAborted", fxCount + 1, 0, conf.isMemo)
       ELSE /\ cstack' = Append(UserStack, UpdateCall(fxCount + 1, "create"))
            /\ evt' = Event("create", fxCount + 1, 0, conf.isMemo)
            /\ UNCHANGED handle
    /\ exc' = "none"
    /\ StartOp("create", 0, FALSE, {})
    /\ bodyCalls' = OpBase(bodyCalls, ZeroCalls)
    /\ cleanupCalls' = OpBase(cleanupCalls, ZeroCalls)
    /\ errorLog' = OpBase(errorLog, 0)
    /\ UNCHANGED <<storeVars, fxDeps, onCleanup, inactive, store2, objects, call, readInRun, readBefore,
                   cancelled>>

\* the handle returned by effect(): cleanup, or () => {} when the
\* AbortSignal had fired before the creation
Cancel(e) ==
    /\ UserCtx
    /\ handle[e]
    /\ IF token[e] = "aborted"
       THEN /\ UNCHANGED <<sigDeps, fxDeps>>
            /\ cleanupCalls' = OpBase(cleanupCalls, ZeroCalls)
            /\ errorLog' = OpBase(errorLog, 0)
       ELSE Cleanup(e, OpBase(cleanupCalls, ZeroCalls), OpBase(errorLog, 0))
    /\ exc' = "none"
    /\ evt' = Event("cancel", e, 0, token[e] # "aborted" /\ onCleanup[e] # "none")
    /\ op' = NoteCancel
    /\ bodyCalls' = OpBase(bodyCalls, ZeroCalls)
    /\ cancelled' = [cancelled EXCEPT ![e] = TRUE]
    /\ cstack' = UserStack
    /\ UNCHANGED <<value, pendingEffects, runningEffects, batchLevel, isUpdating, isTracking,
                   fxCount, fxConf, inactive, store2, objects, call, onCleanup, token, handle, readInRun, readBefore>>

\* the AbortSignal of the effect fires: its listener is cleanup, once
Abort(e) ==
    /\ UserCtx
    /\ token[e] = "live"
    /\ token' = [token EXCEPT ![e] = "fired"]
    /\ Cleanup(e, OpBase(cleanupCalls, ZeroCalls), OpBase(errorLog, 0))
    /\ exc' = "none"
    /\ evt' = Event("abort", e, 0, onCleanup[e] # "none")
    /\ op' = NoteCancel
    /\ bodyCalls' = OpBase(bodyCalls, ZeroCalls)
    /\ cancelled' = [cancelled EXCEPT ![e] = TRUE]
    /\ cstack' = UserStack
    /\ UNCHANGED <<value, pendingEffects, runningEffects, batchLevel, isUpdating, isTracking,
                   fxCount, fxConf, inactive, store2, objects, call, onCleanup, handle, readInRun, readBefore>>

OpenBatches == Len(SelectSeq(cstack, LAMBDA f : f.kind = "batch"))

BatchEnter ==
    /\ UserCtx
    /\ OpenBatches < MaxBatch
    /\ batchLevel' = batchLevel + 1
    /\ cstack' = Append(cstack, BatchCall)
    /\ exc' = "none"
    /\ evt' = Event("batch", 0, 0, AtTop)
    /\ StartOp("batch", 0, FALSE, {})
    /\ bodyCalls' = OpBase(bodyCalls, ZeroCalls)
    /\ cleanupCalls' = OpBase(cleanupCalls, ZeroCalls)
    /\ errorLog' = OpBase(errorLog, 0)
    /\ UNCHANGED <<value, sigDeps, pendingEffects, runningEffects, isUpdating, isTracking,
                   fxVars, store2, objects, call, readInRun, readBefore, cancelled>>

\* (mutant) every exit of a batch flushes
BatchFinallyAlwaysFlushes(thrown) ==
    /\ batchLevel' = batchLevel - 1
    /\ cstack' = Append(SetTop([Top EXCEPT !.phase = "finally", !.exc = thrown]), FlushCall)
    /\ exc' = "none"

\* the finally block of batch(); thrown is the exception that left execute()
BatchFinally(thrown) ==
    /\ batchLevel' = batchLevel - 1
    /\ IF batchLevel - 1 = 0
       THEN /\ cstack' = Append(SetTop([Top EXCEPT !.phase = "finally", !.exc = thrown]),
                                FlushCall)
            /\ exc' = "none"
       ELSE /\ cstack' = [Callers EXCEPT ![Len(Callers)].idx = Top.idx]
            /\ exc' = thrown

\* execute() returns
BatchReturn ==
    /\ InBatchBody
    /\ BatchFinally("none")
    /\ evt' = Event("batchReturn", 0, 0, batchLevel = 1)
    /\ NoteBatchExit("none")
    /\ UNCHANGED <<value, sigDeps, pendingEffects, runningEffects, isUpdating, isTracking,
                   fxVars, store2, objects, call, bodyCalls, cleanupCalls, errorLog, readInRun, readBefore,
                   cancelled>>

\* execute() throws
BatchThrow ==
    /\ InBatchBody
    /\ exc' = "user"
    /\ evt' = Event("batchThrow", 0, 0, FALSE)
    /\ UNCHANGED <<storeVars, fxVars, store2, objects, call, cstack, ghostVars>>

\* the flush of the finally block has returned: batch() returns or rethrows
BatchExit ==
    /\ Running("batch", "finally")
    /\ cstack' = Callers
    /\ exc' = Top.exc
    /\ evt' = Event("batchExit", 0, 0, Top.exc # "none")
    /\ UNCHANGED <<storeVars, fxVars, store2, objects, call, ghostVars>>

\* ------------------------------------------------------------------ #flush
IsMemo(e) == fxConf[e].isMemo

\* if (#isUpdating) return; #isUpdating = true; memos = pending memo effects
FlushEnter ==
    /\ Running("flush", "enter")
    /\ IF isUpdating
       THEN /\ cstack' = Callers
            /\ UNCHANGED isUpdating
       ELSE /\ isUpdating' = TRUE
            /\ cstack' = SetTop([Top EXCEPT !.phase = "memo", !.idx = 1,
                                            !.list = SelectSeq(pendingEffects, IsMemo)])
    /\ evt' = Event("flush", 0, 0, ~isUpdating)
    /\ UNCHANGED <<value, sigDeps, pendingEffects, runningEffects, batchLevel, isTracking,
                   fxVars, store2, objects, call, exc, ghostVars>>

\* for (const fx of memos) { fx.update(); ...
FlushMemoCall ==
    /\ Running("flush", "memo")
    /\ Top.idx <= Len(Top.list)
    /\ cstack' = Append(SetTop([Top EXCEPT !.phase = "memoRet"]),
                        UpdateCall(Top.list[Top.idx], "flush"))
    /\ evt' = Event("memoCall", Top.list[Top.idx], 0, FALSE)
    /\ UNCHANGED <<storeVars, fxVars, store2, objects, call, exc, ghostVars>>

\* ... #pendingEffects.delete(fx); }
FlushMemoRet ==
    /\ Running("flush", "memoRet")
    /\ pendingEffects' = SetDelete(pendingEffects, Top.list[Top.idx])
    /\ cstack' = SetTop([Top EXCEPT !.phase = "memo", !.idx = @ + 1])
    /\ evt' = Event("memoRet", Top.list[Top.idx], 0, FALSE)
    /\ UNCHANGED <<value, sigDeps, runningEffects, batchLevel, isUpdating, isTracking,
                   fxVars, store2, objects, call, exc, ghostVars>>

\* (mutant) the effect phase does not clear the set it has copied
FlushMemoDoneNoClear ==
    /\ Running("flush", "memo")
    /\ Top.idx > Len(Top.list)
    /\ isUpdating' = FALSE
    /\ IF batchLevel > 0
       THEN cstack' = Callers
       ELSE cstack' = SetTop([Top EXCEPT !.phase = "effects", !.idx = 1,
                                         !.list = pendingEffects])
    /\ evt' = Event("memoDone", 0, 0, batchLevel > 0)
    /\ UNCHANGED <<value, sigDeps, pendingEffects, runningEffects, batchLevel, isTracking,
                   fxVars, store2, objects, call, exc, ghostVars>>

\* #isUpdating = false; if (#batchLevel > 0) return; effects = pending; clear
FlushMemoDone ==
    /\ Running("flush", "memo")
    /\ Top.idx > Len(Top.list)
    /\ isUpdating' = FALSE
    /\ IF batchLevel > 0
       THEN /\ cstack' = Callers
            /\ UNCHANGED pendingEffects
       ELSE /\ cstack' = SetTop([Top EXCEPT !.phase = "effects", !.idx = 1,
                                            !.list = pendingEffects])
            /\ pendingEffects' = <<>>
    /\ evt' = Event("memoDone", 0, 0, batchLevel > 0)
    /\ UNCHANGED <<value, sigDeps, runningEffects, batchLevel, isTracking, fxVars, store2, objects, call, exc,
                   ghostVars>>

\* for (const fx of effects) fx.update();
FlushEffectCall ==
    /\ Running("flush", "effects")
    /\ Top.idx <= Len(Top.list)
    /\ cstack' = Append(SetTop([Top EXCEPT !.idx = @ + 1]),
                        UpdateCall(Top.list[Top.idx], "flush"))
    /\ evt' = Event("effectCall", Top.list[Top.idx], 0, FALSE)
    /\ UNCHANGED <<storeVars, fxVars, store2, objects, call, exc, ghostVars>>

FlushReturn ==
    /\ Running("flush", "effects")
    /\ Top.idx > Len(Top.list)
    /\ cstack' = Callers
    /\ evt' = Event("flushReturn", 0, 0, FALSE)
    /\ UNCHANGED <<storeVars, fxVars, store2, objects, call, exc, ghostVars>>

\* ------------------------------------------------- the closure `update`
\* (mutant) the check for a running effect never fires
IsRunningNever(e) == FALSE

\* this.#runningEffects.includes(fx)
IsRunning(e) == e \in Range(runningEffects)

\* (mutant) notifications of a torn-down effect are not ignored
IgnoredNever(e) == FALSE

\* the effect was marked inactive: its notifications are ignored
Ignored(e) == inactive[e]

\* update() of an inactive effect returns at once
UpdateIgnored ==
    /\ Running("update", "start")
    /\ Ignored(Top.fx)
    /\ cstack' = Callers
    /\ evt' = Event("updateIgnored", Top.fx, 0, TRUE)
    /\ UNCHANGED <<storeVars, fxVars, store2, objects, call, exc, ghostVars>>

\* cleanup(); cyclic check; #runningEffects.push(fx); then the body starts
UpdateStart ==
    /\ Running("update", "start")
    /\ ~Ignored(Top.fx)
    /\ Cleanup(Top.fx, cleanupCalls, errorLog)
    /\ IF IsRunning(Top.fx)
       THEN /\ exc' = "cyclic"
            /\ cstack' = Callers
            /\ op' = [op EXCEPT !.cyclic = TRUE]
            /\ UNCHANGED <<runningEffects, bodyCalls, readInRun, readBefore>>
       ELSE /\ exc' = "none"
            /\ runningEffects' = Append(runningEffects, Top.fx)
            /\ cstack' = SetTop([Top EXCEPT !.phase = "body", !.idx = 1, !.acc = 0])
            /\ bodyCalls' = [bodyCalls EXCEPT ![Top.fx] = @ + 1]
            /\ readInRun' = [readInRun EXCEPT ![Top.fx] = {}]
            /\ readBefore' = [readBefore EXCEPT ![Top.fx] = @ \cup readInRun[Top.fx]]
            /\ UNCHANGED op
    /\ evt' = Event("update", Top.fx, 0, IsRunning(Top.fx))
    /\ UNCHANGED <<value, pendingEffects, batchLevel, isUpdating, isTracking, fxCount,
                   fxConf, inactive, store2, objects, call, onCleanup, token, handle, cancelled>>

InBody == Running("update", "body")
Prog == fxConf[Top.fx].prog
Instr == Prog[Top.idx]
AtInstr(ops) == InBody /\ Top.idx <= Len(Prog) /\ Instr.op \in ops
Advance(acc) == [Top EXCEPT !.idx = @ + 1, !.acc = acc]

\* the body reads a signal (readIf: only when the value computed so far is k)
BodyRead ==
    /\ AtInstr({"read", "readIf"})
    /\ IF Instr.op = "read" \/ Top.acc = Instr.k
       THEN /\ SignalRead(Instr.sig)
            /\ NoteRead(Instr.sig)
            /\ cstack' = SetTop(Advance(Add(Top.acc, value[Instr.sig])))
            /\ evt' = Access("read", Top.fx, Instr.sig, TRUE, value[Instr.sig])
       ELSE /\ UNCHANGED <<sigDeps, fxDeps, readInRun>>
            /\ cstack' = SetTop(Advance(Top.acc))
            /\ evt' = Event("read", Top.fx, Instr.sig, FALSE)
    /\ UNCHANGED <<value, pendingEffects, runningEffects, batchLevel, isUpdating, isTracking,
                   fxCount, fxConf, inactive, store2, objects, call, onCleanup, token, handle, exc, bodyCalls, cleanupCalls,
                   errorLog, readBefore, cancelled, op>>

\* the body writes a signal
BodyWrite ==
    /\ AtInstr({"write"})
    /\ SignalWrite(Instr.sig, (Top.acc + Instr.k) % MaxVal, SetTop(Advance(Top.acc)))
    /\ evt' = Access("write", Top.fx, Instr.sig, value'[Instr.sig] # value[Instr.sig],
                     (Top.acc + Instr.k) % MaxVal)
    /\ UNCHANGED <<sigDeps, runningEffects, batchLevel, isUpdating, isTracking, fxVars, store2, objects, call, exc,
                   ghostVars>>

\* the body throws
BodyThrowIf ==
    /\ AtInstr({"throwIf"})
    /\ IF Top.acc = Instr.k
       THEN exc' = "user" /\ UNCHANGED cstack
       ELSE exc' = "none" /\ cstack' = SetTop(Advance(Top.acc))
    /\ evt' = Event("throwIf", Top.fx, 0, Top.acc = Instr.k)
    /\ UNCHANGED <<storeVars, fxVars, store2, objects, call, ghostVars>>

\* (mutant) a call of context.cancel() is forgotten when the body returns
CancelRequestedNever(f) == FALSE

\* context.cancel() was called during the run of this frame
CancelRequested(f) == f.cancel

\* the body calls context.cancel(): the teardown waits for the body to return
BodyCancel ==
    /\ AtInstr({"cancelIf"})
    /\ cstack' = SetTop([Advance(Top.acc) EXCEPT !.cancel = @ \/ Top.acc = Instr.k])
    /\ evt' = Event("ctxCancel", Top.fx, 0, Top.acc = Instr.k)
    /\ UNCHANGED <<storeVars, fxVars, store2, objects, call, exc, ghostVars>>

\* after the body of a cancelling run has returned: cleanup(), inactive
CtxCancelTeardown ==
    /\ Running("update", "teardown")
    /\ Cleanup(Top.fx, cleanupCalls, errorLog)
    /\ inactive' = [inactive EXCEPT ![Top.fx] = TRUE]
    /\ cstack' = Callers
    /\ evt' = Event("teardown", Top.fx, 0, onCleanup[Top.fx] # "none")
    /\ UNCHANGED <<value, pendingEffects, runningEffects, batchLevel, isUpdating, isTracking,
                   fxCount, fxConf, store2, objects, call, onCleanup, token, handle, exc, bodyCalls, readInRun,
                   readBefore, cancelled, op>>

\* onCleanup = execute(); finally #runningEffects.pop()
BodyReturn ==
    /\ InBody
    /\ Top.idx > Len(Prog)
    /\ onCleanup' = [onCleanup EXCEPT ![Top.fx] = fxConf[Top.fx].ret]
    /\ runningEffects' = Front(runningEffects)
    /\ handle' = IF Top.from = "create" /\ ~IsMemo(Top.fx)
                 THEN [handle EXCEPT ![Top.fx] = TRUE] ELSE handle
    /\ cstack' = IF CancelRequested(Top)
                 THEN SetTop([Top EXCEPT !.phase = "teardown"])
                 ELSE Callers
    /\ evt' = Event("bodyReturn", Top.fx, 0, Top.from = "create")
    /\ UNCHANGED <<value, sigDeps, pendingEffects, batchLevel, isUpdating, isTracking,
                   fxCount, fxConf, inactive, store2, objects, call, fxDeps, token, exc, ghostVars>>

\* --------------------------------------------------------------- untracked
\* the call of the function passed to untracked()
ReaderCall ==
    IF Instr.op = "untracked"
    THEN UntrackedCall(Instr.sig, Instr.k)
    ELSE UntrackedWriteCall(Instr.sig, Instr.k)

\* (mutant) untracked() calls the reader without clearing #isTracking
BodyUntrackedKeepsTracking ==
    /\ AtInstr({"untracked", "untrackedWrite"})
    /\ cstack' = Append(SetTop(Advance(Top.acc)), ReaderCall)
    /\ evt' = Event("untracked", Top.fx, Instr.sig, isTracking)
    /\ UNCHANGED <<storeVars, fxVars, store2, objects, call, exc, ghostVars>>

\* wasTracking = #isTracking; #isTracking = false; read() is called
BodyUntracked ==
    /\ AtInstr({"untracked", "untrackedWrite"})
    /\ isTracking' = FALSE
    /\ cstack' = Append(SetTop(Advance(Top.acc)), ReaderCall)
    /\ evt' = Event("untracked", Top.fx, Instr.sig, isTracking)
    /\ UNCHANGED <<value, sigDeps, pendingEffects, runningEffects, batchLevel, isUpdating,
                   fxVars, store2, objects, call, exc, ghostVars>>

\* const value = read();
UntrackedRead ==
    /\ Running("untracked", "call")
    /\ SignalRead(Top.idx)
    /\ NoteRead(Top.idx)
    /\ cstack' = SetTop([Top EXCEPT !.phase = "ret", !.acc = Add(0, value[Top.idx])])
    /\ exc' = IF value[Top.idx] = Top.k THEN "user" ELSE "none"
    /\ evt' = Access("untrackedRead", Callers[Len(Callers)].fx, Top.idx, Tracked,
                     value[Top.idx])
    /\ UNCHANGED <<value, pendingEffects, runningEffects, batchLevel, isUpdating, isTracking,
                   fxCount, fxConf, inactive, store2, objects, call, onCleanup, token, handle, bodyCalls, cleanupCalls,
                   errorLog, readBefore, cancelled, op>>

\* read is a function that calls the setter: write(k), with #isTracking false
UntrackedWrite ==
    /\ Running("untracked", "write")
    /\ SignalWrite(Top.idx, Top.k, SetTop([Top EXCEPT !.phase = "ret"]))
    /\ evt' = Access("untrackedWrite", Callers[Len(Callers)].fx, Top.idx,
                     value'[Top.idx] # value[Top.idx], Top.k)
    /\ UNCHANGED <<sigDeps, runningEffects, batchLevel, isUpdating, isTracking, fxVars,
                   store2, objects, call, exc, ghostVars>>

\* #isTracking = wasTracking; return value;
UntrackedReturn ==
    /\ Running("untracked", "ret")
    /\ isTracking' = Top.was
    /\ cstack' = [Callers EXCEPT ![Len(Callers)].acc = Add(@, Top.acc)]
    /\ evt' = Event("untrackedReturn", 0, Top.idx, Top.was)
    /\ UNCHANGED <<value, sigDeps, pendingEffects, runningEffects, batchLevel, isUpdating,
                   fxVars, store2, objects, call, exc, ghostVars>>

\* ------------------------------------------------ an exception propagates
Unwinding(kind) == cstack # <<>> /\ exc # "none" /\ Top.kind = kind

\* (mutant) the catch block of update() rethrows without cleanup()
UnwindUpdateNoCleanup ==
    /\ Unwinding("update")
    /\ runningEffects' = Front(runningEffects)
    /\ cstack' = Callers
    /\ evt' = Event("catch", Top.fx, 0, FALSE)
    /\ UNCHANGED <<value, sigDeps, pendingEffects, batchLevel, isUpdating, isTracking,
                   fxVars, store2, objects, call, exc, ghostVars>>

\* (mutant) update() has no finally block: a failing run is not popped
UnwindUpdateNoPop ==
    /\ Unwinding("update")
    /\ Cleanup(Top.fx, cleanupCalls, errorLog)
    /\ cstack' = Callers
    /\ evt' = Event("catch", Top.fx, 0, onCleanup[Top.fx] # "none")
    /\ UNCHANGED <<value, pendingEffects, runningEffects, batchLevel, isUpdating, isTracking,
                   fxCount, fxConf, inactive, store2, objects, call, onCleanup, token, handle,
                   exc, bodyCalls, readInRun, readBefore, cancelled, op>>

\* catch (error) { cleanup(); throw error; } finally { #runningEffects.pop(); }
UnwindUpdate ==
    /\ Unwinding("update")
    /\ Cleanup(Top.fx, cleanupCalls, errorLog)
    /\ runningEffects' = Front(runningEffects)
    /\ cstack' = Callers
    /\ evt' = Event("catch", Top.fx, 0, onCleanup[Top.fx] # "none")
    /\ UNCHANGED <<value, pendingEffects, batchLevel, isUpdating, isTracking, fxCount,
                   fxConf, inactive, store2, objects, call, onCleanup, token, handle, exc, bodyCalls, readInRun, readBefore,
                   cancelled, op>>

\* #flush and untracked have no handler: the exception passes through
UnwindFlush ==
    /\ Unwinding("flush")
    /\ cstack' = Callers
    /\ evt' = Event("unwindFlush", 0, 0, isUpdating)
    /\ UNCHANGED <<storeVars, fxVars, store2, objects, call, exc, ghostVars>>

UnwindUntracked ==
    /\ Unwinding("untracked")
    /\ cstack' = Callers
    /\ evt' = Event("unwindUntracked", 0, 0, isTracking)
    /\ UNCHANGED <<storeVars, fxVars, store2, objects, call, exc, ghostVars>>

\* batch: the finally block runs; an exception of its flush replaces the first
UnwindBatch ==
    /\ Unwinding("batch")
    /\ IF Top.phase = "body"
       THEN /\ BatchFinally(exc)
            /\ NoteBatchExit(exc)
       ELSE /\ cstack' = Callers
            /\ UNCHANGED <<batchLevel, exc, op>>
    /\ evt' = Event("unwindBatch", 0, 0, Top.phase = "body")
    /\ UNCHANGED <<value, sigDeps, pendingEffects, runningEffects, isUpdating, isTracking,
                   fxVars, store2, objects, call, bodyCalls, cleanupCalls, errorLog, readInRun, readBefore,
                   cancelled>>

\* ------------------------------------------------------- a second store
\* the one effect of the second store (the effects of the first are 1..NEff)
Foreign == NEff + 1

\* (mutant) one observer stack for all stores
OwnStackShared(own, foreign) == foreign \o own

\* this.#runningEffects of the store whose signal is read: each Store has
\* its own (own), the stack of the other store (foreign) is not looked at
OwnStack(own, foreign) == own

\* update() of the effect of the second store, whose function is
\* () => { a(); b() } with a the signal 1 of the first store: cleanup, push
\* on the stack of the second store, a() and b() each register the effect
\* on top of the stack of their own store, pop
OtherUpdate(st) ==
    LET running2 == <<Foreign>>
        stackA == OwnStack(runningEffects, running2)
        stackB == OwnStack(running2, runningEffects)
    IN  /\ IF isTracking /\ stackA # <<>> /\ Last(stackA) \notin Range(sigDeps[1])
           THEN /\ sigDeps' = [sigDeps EXCEPT ![1] = Append(@, Last(stackA))]
                /\ fxDeps' = IF Last(stackA) \in Effects
                              THEN [fxDeps EXCEPT ![Last(stackA)] = @ \cup {1}]
                              ELSE fxDeps
           ELSE UNCHANGED <<sigDeps, fxDeps>>
        /\ store2' = [st EXCEPT !.dependencies = SetAdd(SetDelete(@, Foreign), Last(stackB)),
                                  !.calls = 1]

\* write of b: equals, pending, #flush; the second store has one effect
OtherSignalWrite(new) ==
    IF Equals(store2.value, new)
    THEN /\ store2' = [store2 EXCEPT !.calls = 0]
         /\ UNCHANGED <<sigDeps, fxDeps>>
    ELSE IF Foreign \in Range(store2.dependencies)
    THEN OtherUpdate([store2 EXCEPT !.value = new])
    ELSE /\ store2' = [store2 EXCEPT !.value = new, !.calls = 0]
         /\ UNCHANGED <<sigDeps, fxDeps>>

\* store2.effect(() => { a(); b() }) called by the user
OtherCreateEffect ==
    /\ AtTop
    /\ ~store2.created
    /\ OtherUpdate([store2 EXCEPT !.created = TRUE])
    /\ evt' = Event("otherCreate", Foreign, 0, TRUE)
    /\ UNCHANGED <<value, pendingEffects, runningEffects, batchLevel, isUpdating, isTracking,
                   fxCount, fxConf, onCleanup, token, handle, inactive, cstack, exc,
                   ghostVars, objects, call>>

\* setB(v) called by the user
OtherUpdateSignal(v) ==
    /\ AtTop
    /\ OtherSignalWrite(v)
    /\ evt' = Access("otherWrite", 0, 0, store2.value # v, v)
    /\ UNCHANGED <<value, pendingEffects, runningEffects, batchLevel, isUpdating, isTracking,
                   fxCount, fxConf, onCleanup, token, handle, inactive, cstack, exc,
                   ghostVars, objects, call>>

\* setB(...) called by an effect function of the first store
BodyWriteOther ==
    /\ AtInstr({"writeOther"})
    /\ OtherSignalWrite((Top.acc + Instr.k) % MaxVal)
    /\ cstack' = SetTop(Advance(Top.acc))
    /\ evt' = Access("otherWrite", Top.fx, 0, store2.value # (Top.acc + Instr.k) % MaxVal,
                     (Top.acc + Instr.k) % MaxVal)
    /\ UNCHANGED <<value, pendingEffects, runningEffects, batchLevel, isUpdating, isTracking,
                   fxCount, fxConf, onCleanup, token, handle, inactive, exc, ghostVars, objects, call>>

\* b() called by an effect function of the first store: read() of the
\* second store looks at the stack of the second store, which is empty
BodyReadOther ==
    /\ AtInstr({"readOther"})
    /\ LET stackB == OwnStack(<<>>, runningEffects)
       IN  store2' = IF stackB # <<>>
                     THEN [store2 EXCEPT !.dependencies = SetAdd(@, Last(stackB))]
                     ELSE store2
    /\ cstack' = SetTop(Advance(Add(Top.acc, store2.value)))
    /\ evt' = Access("otherRead", Top.fx, 0, TRUE, store2.value)
    /\ UNCHANGED <<storeVars, fxVars, exc, ghostVars, objects, call>>

\* ------------------------------------------------------------ unlink()
\* (mutant) unlink() finds no effect to tear down
LiveEffectsNone == {}

\* the effects of the store that are still live
LiveEffects == {e \in 1..fxCount : ~inactive[e] /\ token[e] # "aborted"}

\* store.unlink() called by the user: cleanup() of every live effect, each
\* marked inactive
Unlink ==
    /\ AtTop
    /\ fxCount > 0
    /\ sigDeps' = [s \in AllSignals |->
                      SelectSeq(sigDeps[s],
                                LAMBDA e : ~(e \in LiveEffects /\ s \in fxDeps[e]))]
    /\ fxDeps' = [e \in Effects |-> IF e \in LiveEffects THEN {} ELSE fxDeps[e]]
    /\ inactive' = [e \in Effects |-> inactive[e] \/ e \in LiveEffects]
    /\ cleanupCalls' = [e \in Effects |->
                           IF e \in LiveEffects /\ onCleanup[e] # "none" THEN 1 ELSE 0]
    /\ errorLog' = Cardinality({e \in LiveEffects : onCleanup[e] = "throws"})
    /\ bodyCalls' = ZeroCalls
    /\ op' = Operation("unlink", 0, FALSE, LiveEffects)
    /\ exc' = "none"
    /\ evt' = Event("unlink", 0, 0, LiveEffects # {})
    /\ UNCHANGED <<value, pendingEffects, runningEffects, batchLevel, isUpdating, isTracking,
                   fxCount, fxConf, onCleanup, token, handle, store2, objects, call, cstack, readInRun,
                   readBefore, cancelled>>

Next ==
    \/ \E s \in Signals, arg \in UpdateArgs : Update(s, arg)
    \/ \E conf \in Menu(fxCount + 1, fxConf) : CreateEffect(conf)
    \/ \E e \in Effects : Cancel(e)
    \/ \E e \in Effects : Abort(e)
    \/ BatchEnter
    \/ BatchReturn
    \/ BatchThrow
    \/ BatchExit
    \/ FlushEnter
    \/ FlushMemoCall
    \/ FlushMemoRet
    \/ FlushMemoDone
    \/ FlushEffectCall
    \/ FlushReturn
    \/ UpdateStart
    \/ UpdateIgnored
    \/ BodyCancel
    \/ CtxCancelTeardown
    \/ BodyRead
    \/ BodyWrite
    \/ BodyThrowIf
    \/ BodyReturn
    \/ BodyUntracked
    \/ UntrackedRead
    \/ UntrackedWrite
    \/ UntrackedReturn
    \/ UnwindUpdate
    \/ UnwindFlush
    \/ UnwindUntracked
    \/ UnwindBatch

Spec == Init /\ [][Next]_vars

\* two stores: the first with effects that also read and write the signal
\* of the second, unlink() of the first, and the second store's operations
NextStores ==
    \/ \E s \in Signals, arg \in UpdateArgs : Update(s, arg)
    \/ \E conf \in StoresMenu(fxCount + 1, fxConf) : CreateEffect(conf)
    \/ \E e \in Effects : Cancel(e)
    \/ Unlink
    \/ OtherCreateEffect
    \/ \E v \in Values : OtherUpdateSignal(v)
    \/ FlushEnter
    \/ FlushMemoCall
    \/ FlushMemoRet
    \/ FlushMemoDone
    \/ FlushEffectCall
    \/ FlushReturn
    \/ UpdateStart
    \/ BodyRead
    \/ BodyWrite
    \/ BodyReadOther
    \/ BodyWriteOther
    \/ BodyReturn

SpecStores == Init /\ [][NextStores]_vars

\* ------------------------------------------------------------- equal.ts
\* isObject: value !== null && typeof value === 'object'
IsObject(v) == v \in ObjIds

\* Object.keys(o), in ascending order
OwnKeys(o) == {k \in Keys : objects[o].props[k] # Absent}
ObjectKeys(o) == SelectSeq([k \in 1..NKey |-> k], LAMBDA k : k \in OwnKeys(o))
\* o.length of an array (arrays are built by push, without holes)
Length(o) == Cardinality(OwnKeys(o))
\* o[k]: undefined when k is not a property of o
Get(o, k) == IF objects[o].props[k] = Absent THEN Undefined ELSE objects[o].props[k]

\* the objects held by the properties of o
ObjChildren(o) == {objects[o].props[k] : k \in OwnKeys(o)} \cap ObjIds

RECURSIVE ObjReachedIn(_, _)
\* the objects reached from those of S in at most n steps
ObjReachedIn(S, n) ==
    IF n = 0 THEN S ELSE ObjReachedIn(S \cup UNION {ObjChildren(o) : o \in S}, n - 1)
\* the objects a comparison starting at value v can reach
ObjReach(v) == ObjReachedIn({v} \cap ObjIds, NObj)
\* deepEqual expands a pair of objects at most once, and a pair lies in
\* ObjReach(a) \X ObjReach(b): the calls one call of equal(a, b) can make
CallLimit(a, b) == 1 + NKey * Cardinality(ObjReach(a)) * Cardinality(ObjReach(b))

\* compare === 'strict' ? Object.is
ObjectIs(lhs, rhs) == lhs = rhs

\* (mutant) the comparison cache never reports a pair
SeenNever(cache, a, b) == FALSE

\* params.cache.get(a)?.has(b)
Seen(cache, a, b) == <<a, b>> \in cache

\* a.length !== b.length for arrays, Object.keys(b).length !== keys.length
\* for records
SameShape(a, b) ==
    IF objects[a].kind = "Array"
    THEN Length(a) = Length(b)
    ELSE Cardinality(OwnKeys(b)) = Len(ObjectKeys(a))

Returns(eq, st) == [eq |-> eq, cache |-> st.cache, calls |-> st.calls, overflow |-> FALSE]

RECURSIVE deepEqual(_, _, _, _, _)
RECURSIVE EachEqual(_, _, _, _, _, _, _)

\* for (key of keys) if (!deepEqual(a[key], b[key], params, depth)) return false;
\* return true
EachEqual(a, b, keys, i, maxDepth, depth, st) ==
    IF i > Len(keys)
    THEN Returns(TRUE, st)
    ELSE LET r == deepEqual(Get(a, keys[i]), Get(b, keys[i]), maxDepth, depth, st)
         IN  IF ~r.eq
             THEN r
             ELSE EachEqual(a, b, keys, i + 1, maxDepth, depth,
                            [cache |-> r.cache, calls |-> r.calls, limit |-> st.limit])

\* deepEqual(a, b, params, depth): st carries params.cache and the number of
\* calls made so far; a call beyond st.limit is reported as overflow
deepEqual(a, b, maxDepth, depth0, st0) ==
    LET depth == depth0 + 1
        st == [st0 EXCEPT !.calls = @ + 1]
    IN  IF st0.calls >= st0.limit
        THEN [eq |-> FALSE, cache |-> st0.cache, calls |-> st0.calls, overflow |-> TRUE]
        ELSE IF depth > maxDepth \/ ~IsObject(a) \/ ~IsObject(b)
        THEN Returns(ObjectIs(a, b), st)
        ELSE IF a = b
        THEN Returns(TRUE, st)
        ELSE IF objects[a].kind # objects[b].kind
        THEN Returns(FALSE, st)
        ELSE IF Seen(st.cache, a, b)
        THEN Returns(FALSE, st)
        ELSE LET st1 == [st EXCEPT !.cache = @ \cup {<<a, b>>}]
             IN  IF ~SameShape(a, b)
                 THEN Returns(FALSE, st1)
                 ELSE EachEqual(a, b, ObjectKeys(a), 1, maxDepth, depth, st1)

\* equal(a, b, { compare: 'strict', maxDepth }): a new cache for each call
equal(a, b, maxDepth) ==
    deepEqual(a, b, maxDepth, 0, [cache |-> {}, calls |-> 0, limit |-> CallLimit(a, b)])

\* shallowlyEqual(a, b) = equal(a, b, { compare, maxDepth: 1 })
shallowlyEqual(a, b) == equal(a, b, 1)

PropCount ==
    Cardinality({ok \in ObjIds \X Keys : objects[ok[1]].props[ok[2]] # Absent})

\* const a = []
NewArray(o) ==
    /\ call = NoCall
    /\ objects[o] = NewObject("Object")
    /\ \A p \in ObjIds, k \in Keys : objects[p].props[k] # o
    /\ objects' = [objects EXCEPT ![o] = NewObject("Array")]
    /\ UNCHANGED <<storeVars, fxVars, store2, call, cstack, exc, evt, ghostVars>>

\* o[k] = v for a record, o.push(v) for an array
SetProp(o, k, v) ==
    /\ call = NoCall
    /\ PropCount < MaxProps
    /\ objects[o].props[k] = Absent
    /\ objects[o].kind = "Array" => k = Length(o) + 1
    /\ objects' = [objects EXCEPT ![o].props[k] = v]
    /\ UNCHANGED <<storeVars, fxVars, store2, call, cstack, exc, evt, ghostVars>>

Called(fn, a, b, maxDepth, r) ==
    [fn |-> fn, a |-> a, b |-> b, maxDepth |-> maxDepth, eq |-> r.eq,
     calls |-> r.calls, overflow |-> r.overflow]

\* equal(a, b, { maxDepth })
EqualCall(a, b, maxDepth) ==
    /\ call = NoCall
    /\ call' = Called("equal", a, b, maxDepth, equal(a, b, maxDepth))
    /\ UNCHANGED <<storeVars, fxVars, store2, objects, cstack, exc, evt, ghostVars>>

\* shallowlyEqual(a, b)
ShallowlyEqualCall(a, b) ==
    /\ call = NoCall
    /\ call' = Called("shallowlyEqual", a, b, 1, shallowlyEqual(a, b))
    /\ UNCHANGED <<storeVars, fxVars, store2, objects, cstack, exc, evt, ghostVars>>

\* the values a property of o may hold: a primitive, o itself, a nested object
PropValues(o) == Prims \cup {o} \cup Inner
\* nested objects are records with at most the first key
PropKeys(o) == IF o \in Roots THEN Keys ELSE {1}

NextEqual ==
    \/ \E o \in Roots : NewArray(o)
    \/ \E o \in ObjIds : \E k \in PropKeys(o), v \in PropValues(o) : SetProp(o, k, v)
    \/ \E a \in Roots, b \in Roots, maxDepth \in DepthArgs : EqualCall(a, b, maxDepth)
    \/ \E a \in Roots, b \in Roots : ShallowlyEqualCall(a, b)

SpecEqual == Init /\ [][NextEqual]_vars

\* ====================================================================
\* Properties
\* ====================================================================
CreatedEffects == 1..fxCount

\* C2: a write whose resolved new value equals the current value is a no-op:
\* the value, the dependencies of every signal and the pending set are
\* unchanged, no flush is called and no effect starts to run.
C2_EqualWriteIsNoOp ==
    [][(evt'.name = "write" /\ value[evt'.sig] = evt'.val)
        => /\ value' = value
           /\ sigDeps' = sigDeps
           /\ pendingEffects' = pendingEffects
           /\ isUpdating' = isUpdating
           /\ runningEffects' = runningEffects
           /\ Len(cstack') = Len(cstack)]_vars

C2_Witness ==
    /\ evt.name = "write"
    /\ ~evt.flag
    /\ sigDeps[evt.sig] # <<>>

\* C5: an effect enters the pending set only by a write to a signal that it
\* read, with tracking, during its most recent run; signals it read only in
\* earlier runs do not schedule it.
C5_OnlyLatestReadsSchedule ==
    [][\A e \in Effects :
        (e \in Range(pendingEffects') /\ e \notin Range(pendingEffects))
            => (evt'.name \in WriteEvents /\ evt'.sig \in readInRun[e])]_vars

C5_Witness ==
    \E e \in CreatedEffects :
        /\ evt.name = "write"
        /\ evt.flag
        /\ evt.sig \in readBefore[e] \ readInRun[e]
        /\ e \notin Range(runningEffects)
        /\ e \notin Range(pendingEffects)

\* C6: when the body of an effect returns, the effect is a dependency of
\* every signal it read during that run while it was the running effect
\* and tracking was enabled.
C6_ReadInstallsEdge ==
    evt.name = "bodyReturn"
        => \A s \in readInRun[evt.fx] : evt.fx \in Range(sigDeps[s])

C6_Witness ==
    /\ evt.name = "bodyReturn"
    /\ readInRun[evt.fx] # {}
    /\ bodyCalls[evt.fx] > 0

\* C8: nested batches collapse: the batch level is the number of batch
\* bodies that have not exited, the flush of a finally block belongs to the
\* outermost batch and runs at level 0, and no plain effect runs while the
\* level is above 0.
C8_NestedBatchesCollapse ==
    /\ batchLevel = Len(SelectSeq(cstack, LAMBDA f : f.kind = "batch" /\ f.phase = "body"))
    /\ \A i \in 1..Len(cstack) :
          (cstack[i].kind = "batch" /\ cstack[i].phase = "finally")
              => (i = 1 /\ batchLevel = 0)
    /\ batchLevel > 0 => \A e \in Range(runningEffects) : IsMemo(e)

C8_Witness ==
    /\ evt.name = "batchReturn"
    /\ batchLevel = 1
    /\ \E e \in Range(pendingEffects) : ~IsMemo(e)

\* C1: when update(S, v) is called at the top level (no batch open, no
\* effect running) with a value that differs from the current one, and
\* returns without an exception, the body of every effect that was a
\* dependency of S at the call has been invoked again.
C1_UpdateRunsObservers ==
    (AtTop /\ exc = "none" /\ op.kind = "update" /\ op.changed)
        => \A e \in op.targets : bodyCalls[e] >= 1

\* C1, restricted to updates called while #isUpdating is false (no earlier
\* flush was left unfinished by an exception)
C1_UpdateRunsObserversUnlessStuck ==
    (AtTop /\ exc = "none" /\ op.kind = "update" /\ op.changed /\ ~op.wasUpdating)
        => \A e \in op.targets : bodyCalls[e] >= 1

\* C3: once an effect has been cancelled (by its handle or by its abort
\* token, called outside its own body) no step inserts it into the pending
\* set and no step starts its body.
C3_CancelIsFinal ==
    [][\A e \in Effects :
        cancelled[e]
            => /\ e \in Range(pendingEffects') => e \in Range(pendingEffects)
               /\ e \in Range(runningEffects') => e \in Range(runningEffects)]_vars

\* C4: a second call of the cancel handle, right after the first, changes
\* nothing: the store and the dependencies of every signal are unchanged
\* and the user cleanup is not invoked again.
C4_CancelIdempotent ==
    [][(evt.name = "cancel" /\ evt'.name = "cancel" /\ evt'.fx = evt.fx)
        => /\ UNCHANGED <<storeVars, fxDeps, onCleanup>>
           /\ ~evt'.flag]_vars

\* ------------------------------------------------ the graph of the store
Instrs(e) == Range(fxConf[e].prog)
ReadsOf(e) == {i.sig : i \in {j \in Instrs(e) : j.op \in {"read", "readIf"}}}
WritesOf(e) == {i.sig : i \in {j \in Instrs(e) : j.op \in {"write", "untrackedWrite"}}}
Throws(e) == \E i \in Instrs(e) : i.op = "throwIf" \/ (i.op = "untracked" /\ i.k < MaxVal)

\* signals that a write to a signal of S can make some effect write
Downstream(S) ==
    UNION {WritesOf(e) : e \in {f \in CreatedEffects : ReadsOf(f) \cap S # {}}}

RECURSIVE Reach(_, _)
Reach(S, n) == IF n = 0 THEN S ELSE Reach(S \cup Downstream(S), n - 1)

AcyclicGraph ==
    \A s \in AllSignals : s \notin Reach(Downstream({s}), NSig + NEff)

NoThrowingBody == \A e \in CreatedEffects : ~Throws(e)

\* what memo m is meant to hold: its compute function applied to the
\* current values of the signals (and memos) it reads
RECURSIVE MemoSpec(_), ComputeSpec(_, _, _)
ComputeSpec(prog, i, acc) ==
    IF i > Len(prog) \/ prog[i].op = "write"
    THEN acc
    ELSE IF prog[i].op = "read" \/ (prog[i].op = "readIf" /\ acc = prog[i].k)
    THEN ComputeSpec(prog, i + 1,
                     Add(acc, IF prog[i].sig \in Signals
                              THEN value[prog[i].sig]
                              ELSE MemoSpec(prog[i].sig - NSig)))
    ELSE ComputeSpec(prog, i + 1, acc)
MemoSpec(m) == ComputeSpec(fxConf[m].prog, 1, 0)

PlainReadOfMemo ==
    /\ evt.name = "read"
    /\ evt.flag
    /\ evt.fx \in CreatedEffects
    /\ ~IsMemo(evt.fx)
    /\ evt.sig \notin Signals

\* C10: glitch-freedom: in an acyclic graph whose bodies do not throw, the
\* value a plain effect reads from a memo is the memo's compute function
\* applied to the current values of its upstream signals.
C10_GlitchFree ==
    (PlainReadOfMemo /\ AcyclicGraph /\ NoThrowingBody)
        => evt.val = MemoSpec(evt.sig - NSig)

\* C10, restricted to memos that read no other memo
C10_GlitchFreeDepthOne ==
    (PlainReadOfMemo /\ AcyclicGraph /\ NoThrowingBody
        /\ ReadsOf(evt.sig - NSig) \subseteq Signals)
        => evt.val = MemoSpec(evt.sig - NSig)

PlainEffects == {e \in CreatedEffects : ~IsMemo(e)}

\* a top-level batch has returned
BatchDone == AtTop /\ op.kind = "batch"

\* C7: no plain effect runs while a batch is open, and when a batch of
\* writes has returned (in an acyclic graph whose bodies do not throw) every
\* plain effect that was pending at its exit has run exactly once and no
\* plain effect has run more than once.
C7_BatchRunsEachEffectOnce ==
    /\ \A e \in PlainEffects : e \in Range(runningEffects) => batchLevel = 0
    /\ (BatchDone /\ exc = "none" /\ op.writesOnly /\ AcyclicGraph /\ NoThrowingBody)
          => \A e \in PlainEffects :
                /\ bodyCalls[e] <= 1
                /\ e \in op.targets => bodyCalls[e] = 1

\* C9: when the body of a batch has raised, the batch level is back to 0,
\* the effects pending at the exit have been run by the flush of the
\* finally block and the exception has reached the caller of batch.
C9_BatchBodyRaises ==
    (BatchDone /\ op.threw)
        => /\ batchLevel = 0
           /\ exc # "none"
           /\ \A e \in op.targets : bodyCalls[e] >= 1

\* C9, with the run of the pending effects required only in acyclic graphs
\* whose bodies do not throw
C9_BatchBodyRaisesCore ==
    (BatchDone /\ op.threw)
        => /\ batchLevel = 0
           /\ exc # "none"
           /\ (NoThrowingBody /\ AcyclicGraph) => \A e \in op.targets : bodyCalls[e] >= 1

\* no plain effect body writes a signal
NoWritingEffect == \A e \in PlainEffects : WritesOf(e) = {}

\* C7, restricted to graphs whose plain effects write no signal
C7_BatchRunsEachReaderOnce ==
    /\ \A e \in PlainEffects : e \in Range(runningEffects) => batchLevel = 0
    /\ (BatchDone /\ exc = "none" /\ op.writesOnly /\ AcyclicGraph /\ NoThrowingBody
          /\ NoWritingEffect)
          => \A e \in PlainEffects :
                /\ bodyCalls[e] <= 1
                /\ e \in op.targets => bodyCalls[e] = 1

\* ------------------------------------------------------ order of a flush
\* the effects a call of #flush has updated in its effect loop, in order
UpdatedBy(f) == SubSeq(f.list, 1, f.idx - 1)

FlushFrames == {i \in 1..Len(cstack) : cstack[i].kind = "flush" /\ cstack[i].phase = "effects"}

\* no memo reads another memo
MemosDepthOne == \A e \in CreatedEffects : IsMemo(e) => ReadsOf(e) \subseteq Signals

\* C11: within one call of #flush, no memo-kind effect is updated after a
\* plain effect has been updated by that call.
C11_MemosBeforeEffects ==
    \A n \in FlushFrames :
        \A i, j \in 1..Len(UpdatedBy(cstack[n])) :
            (i < j /\ ~IsMemo(UpdatedBy(cstack[n])[i])) => ~IsMemo(UpdatedBy(cstack[n])[j])

\* C11, restricted to stores in which no memo reads another memo
C11_MemosBeforeEffectsDepthOne ==
    MemosDepthOne =>
        \A n \in FlushFrames :
            \A i, j \in 1..Len(UpdatedBy(cstack[n])) :
                (i < j /\ ~IsMemo(UpdatedBy(cstack[n])[i]))
                    => ~IsMemo(UpdatedBy(cstack[n])[j])

\* ------------------------------------------------------ cycle detection
\* C12: an effect is never on the stack of running effects twice: a call of
\* update() for an effect whose body is still executing raises the cyclic
\* dependency error without entering the body, and that error is what the
\* caller of the operation (creation, update or batch) receives.
C12_CycleRaises ==
    /\ \A i, j \in 1..Len(runningEffects) : i # j => runningEffects[i] # runningEffects[j]
    /\ (evt.name = "update" /\ evt.flag) => exc = "cyclic"
    /\ (AtTop /\ op.cyclic) => exc = "cyclic"

\* an update has raised the cyclic error to its caller
C12_Witness ==
    /\ AtTop
    /\ op.kind = "update"
    /\ op.cyclic
    /\ exc = "cyclic"

\* ---------------------------------------------------- flush termination
\* C13: while a top-level update is processed, and after it, in an acyclic
\* graph no effect body has been invoked more than once for that write
\* (the flush of the write and the flushes nested in it counted together).
C13_AtMostOncePerWrite ==
    (op.kind = "update" /\ AcyclicGraph)
        => \A e \in CreatedEffects : bodyCalls[e] <= 1

\* C13, as far as it holds: no operation invokes a body more often than
\* there are effects (cyclic graphs included, so the processing is finite),
\* and a write invokes each body at most once in acyclic graphs in which
\* plain effects write no signal and no memo reads another memo
C13_AtMostOncePerWriteSimple ==
    /\ \A e \in CreatedEffects : bodyCalls[e] <= NEff
    /\ (op.kind = "update" /\ AcyclicGraph /\ NoWritingEffect /\ MemosDepthOne)
          => \A e \in CreatedEffects : bodyCalls[e] <= 1

\* -------------------------------------------------------------- untracked
\* signals the body of e reads through untracked, and signals it reads
\* directly on every run
UntrackedOf(e) == {i.sig : i \in {j \in Instrs(e) : j.op = "untracked"}}
AlwaysReadBy(e) == {i.sig : i \in {j \in Instrs(e) : j.op = "read"}}

\* frame i of the stack is a call of untracked whose reader calls a setter
ReaderWrote(i) ==
    /\ i > 1
    /\ cstack[i].kind = "untracked"
    /\ cstack[i - 1].kind = "update"
    /\ fxConf[cstack[i - 1].fx].prog[cstack[i - 1].idx - 1].op = "untrackedWrite"

\* C14: a read through untracked installs no edge, so an effect is never a
\* dependency of a signal it reads only through untracked, its own writes to
\* such a signal raise no cyclic dependency (the error is raised only in
\* graphs that are cyclic through direct reads), the signals it reads
\* directly with tracking enabled still hold it as a dependency when its body
\* returns, and untracked hands the value read to the body.
C14_UntrackedInstallsNoEdge ==
    /\ [](\A e \in CreatedEffects : \A s \in AllSignals :
            s \notin ReadsOf(e) => e \notin Range(sigDeps[s]))
    /\ [](op.cyclic => ~AcyclicGraph)
    /\ []((evt.name = "bodyReturn" /\ isTracking)
            => \A s \in AlwaysReadBy(evt.fx) : evt.fx \in Range(sigDeps[s]))
    /\ [][evt'.name = "untrackedRead" => UNCHANGED <<sigDeps, fxDeps>>]_vars
    /\ [][(evt'.name = "untrackedReturn" /\ ~ReaderWrote(Len(cstack)))
            => cstack'[Len(cstack')].acc = Add(Callers[Len(Callers)].acc, value[evt'.sig])]_vars

\* an effect changes a signal that it has read through untracked only, is
\* not scheduled by that write, and holds an edge from a direct read
C14_Witness ==
    \E e \in CreatedEffects :
        /\ evt.name = "write"
        /\ evt.flag
        /\ evt.fx = e
        /\ evt.sig \in UntrackedOf(e) \ ReadsOf(e)
        /\ fxDeps[e] # {}
        /\ e \notin Range(pendingEffects)

\* no call of untracked is in progress
NoUntrackedCall == \A i \in 1..Len(cstack) : cstack[i].kind # "untracked"

\* no reader passed to untracked can throw
NoThrowingReader ==
    \A e \in CreatedEffects : \A i \in Instrs(e) : i.op = "untracked" => i.k >= MaxVal

\* C15: whenever no call of untracked is in progress the tracking flag has
\* the value it had before the calls (true), also after a reader has thrown,
\* so every body that returns is a dependency of the signals it read directly.
C15_UntrackedRestoresTracking ==
    /\ NoUntrackedCall => isTracking
    /\ evt.name = "bodyReturn"
          => \A s \in AlwaysReadBy(evt.fx) : evt.fx \in Range(sigDeps[s])

\* no reader passed to untracked calls a setter
NoWritingReader ==
    \A e \in CreatedEffects : \A i \in Instrs(e) : i.op # "untrackedWrite"

\* no call of a reader raises: no reader throws, and the flush of a write
\* made by a reader runs no body that throws and meets no cycle
NoRaisingReader ==
    NoThrowingReader /\ (NoWritingReader \/ (NoThrowingBody /\ AcyclicGraph))

\* C15, restricted to stores in which no call of a reader passed to
\* untracked raises, and to the bodies that return while no call of
\* untracked is in progress
C15_UntrackedRestoresTrackingOnReturn ==
    NoRaisingReader =>
        /\ NoUntrackedCall => isTracking
        /\ (evt.name = "bodyReturn" /\ NoUntrackedCall)
              => \A s \in AlwaysReadBy(evt.fx) : evt.fx \in Range(sigDeps[s])

\* ------------------------------------------ creation with a fired token
\* effects created with an AbortSignal that had already fired
BornAborted == {e \in CreatedEffects : token[e] = "aborted"}

\* C16: creating an effect or memo with an abort token that has already
\* fired calls nothing and leaves the store unchanged; such an effect is
\* never a dependency, never pending, never running and never updated; and
\* calling its cancel handle changes nothing.
C16_AbortedCreationIsInert ==
    /\ [](\A e \in BornAborted :
            /\ fxDeps[e] = {}
            /\ onCleanup[e] = "none"
            /\ \A s \in AllSignals : e \notin Range(sigDeps[s])
            /\ e \notin Range(pendingEffects)
            /\ e \notin Range(runningEffects)
            /\ \A i \in 1..Len(cstack) : cstack[i].kind = "update" => cstack[i].fx # e)
    /\ [][evt'.name = "createAborted"
            => UNCHANGED <<storeVars, fxDeps, onCleanup, cstack>>]_vars
    /\ [][(evt'.name = "cancel" /\ evt'.fx \in BornAborted)
            => (UNCHANGED <<storeVars, fxDeps, onCleanup>> /\ ~evt'.flag)]_vars

\* a signal that the body of such an effect would read is changed
C16_Witness ==
    \E e \in BornAborted :
        /\ evt.name = "write"
        /\ evt.flag
        /\ evt.sig \in ReadsOf(e)
        /\ handle[e]
        /\ cancelled[e]

\* ------------------------------------------------------ context.cancel()
\* C17: a call of context.cancel() in a body changes no edge and leaves the
\* run in progress; once the body has returned the effect is cleaned up and
\* inactive: it holds no edge, is a dependency of no signal, is not pending
\* and its body is never running again.
C17_ContextCancelDeferred ==
    /\ [][(evt'.name = "ctxCancel" /\ evt'.flag)
            => /\ UNCHANGED <<sigDeps, fxDeps, runningEffects, pendingEffects, inactive, store2>>
               /\ Last(runningEffects') = evt'.fx
               /\ Len(cstack') = Len(cstack)]_vars
    /\ [](\A e \in CreatedEffects :
            inactive[e]
                => /\ fxDeps[e] = {}
                   /\ \A s \in AllSignals : e \notin Range(sigDeps[s])
                   /\ e \notin Range(pendingEffects)
                   /\ e \notin Range(runningEffects))
    /\ [](\A i \in 1..Len(cstack) :
            (cstack[i].kind = "update" /\ cstack[i].phase = "body")
                => (cstack[i].cancel => ~inactive[cstack[i].fx]))
    /\ [][\A e \in CreatedEffects : inactive[e] => inactive'[e]]_vars

\* an effect torn down by context.cancel() during an update is not invoked
\* by a later change of the signal it had read
C17_Witness ==
    \E e \in CreatedEffects :
        /\ inactive[e]
        /\ evt.name = "write"
        /\ evt.flag
        /\ evt.fx = 0
        /\ evt.sig \in readBefore[e] \cup readInRun[e]
        /\ AtTop \/ ~isUpdating

\* ---------------------------------------------------------------- unlink()
\* C18: unlink() marks every effect of the store inactive and leaves the
\* other store as it is; an inactive effect holds no edge, is a dependency
\* of no signal, is not pending and is not in a call of update(), so no later
\* write invokes it; the effect of the other store stays a dependency of its
\* signal and runs for every changing write to it.
C18_UnlinkStopsTheStore ==
    /\ [][evt'.name = "unlink"
            => /\ \A e \in CreatedEffects : token[e] # "aborted" => inactive'[e]
               /\ UNCHANGED <<store2, value, pendingEffects>>]_vars
    /\ [](\A e \in CreatedEffects :
            inactive[e]
                => /\ fxDeps[e] = {}
                   /\ \A s \in AllSignals : e \notin Range(sigDeps[s])
                   /\ e \notin Range(pendingEffects) \cup Range(runningEffects)
                   /\ \A i \in 1..Len(cstack) : cstack[i].fx # e)
    /\ [](store2.created => Foreign \in Range(store2.dependencies))
    /\ []((evt.name = "otherWrite" /\ evt.flag /\ store2.created) => store2.calls = 1)

\* after unlink() a signal that an effect of the store had read was changed,
\* and then the signal of the other store, whose effect ran
C18_Witness ==
    /\ evt.name = "otherWrite"
    /\ evt.flag
    /\ evt.fx = 0
    /\ store2.calls = 1
    /\ op.kind = "update"
    /\ op.changed
    /\ \E e \in CreatedEffects : inactive[e] /\ op.sig \in readBefore[e] \cup readInRun[e]

\* ------------------------------------------------------- store isolation
\* C19: a read of a signal registers only an effect of the signal's own
\* store: the effect of the second store, which reads signal 1 of the first,
\* is never a dependency of a signal of the first store, never pending there
\* and never called by it, and no effect of the first store is a dependency
\* of the signal of the second; a write by the user to the signal of the
\* second store starts nothing in the first, and the effect of the second
\* store runs only in a write to its own signal (or at its creation).
C19_StoresIsolated ==
    /\ [](\A s \in AllSignals : Foreign \notin Range(sigDeps[s]))
    /\ [](Range(store2.dependencies) \subseteq {Foreign})
    /\ [](/\ Foreign \notin Range(pendingEffects) \cup Range(runningEffects)
          /\ \A i \in 1..Len(cstack) : cstack[i].fx # Foreign)
    /\ [][(evt'.name = "otherWrite" /\ evt'.fx = 0)
            => UNCHANGED <<pendingEffects, cstack, bodyCalls>>]_vars
    /\ [][store2' # store2 => evt'.name \in {"otherCreate", "otherWrite"}]_vars

\* the effect of the second store has read signal 1 of the first store,
\* an effect of the first store has read the signal of the second, and
\* signal 1 is changed by the user
C19_Witness ==
    /\ store2.created
    /\ evt.name = "write"
    /\ evt.sig = 1
    /\ evt.flag
    /\ evt.fx = 0
    /\ \E e \in CreatedEffects :
          /\ RdO \in Range(fxConf[e].prog)
          /\ fxDeps[e] # {}

\* ------------------------------------------------ cleanup between two runs
\* C20: the callable stored for an effect is the one its latest returned
\* invocation returned (only the return of a body stores one); the step of
\* update() that starts the next invocation invokes it exactly once, and
\* when it has done so the body is still at its first statement.
C20_CleanupBeforeNextRun ==
    /\ [][\A e \in Effects :
            onCleanup'[e] # onCleanup[e]
                => /\ evt'.name = "bodyReturn"
                   /\ evt'.fx = e
                   /\ onCleanup'[e] = fxConf[e].ret]_vars
    /\ [][(evt'.name = "bodyReturn") => onCleanup'[evt'.fx] = fxConf[evt'.fx].ret]_vars
    /\ [][(evt'.name = "update" /\ ~evt'.flag /\ onCleanup[evt'.fx] # "none")
            => /\ cleanupCalls'[evt'.fx] = cleanupCalls[evt'.fx] + 1
               /\ bodyCalls'[evt'.fx] = bodyCalls[evt'.fx] + 1
               /\ cstack'[Len(cstack')].phase = "body"
               /\ cstack'[Len(cstack')].idx = 1]_vars

\* a flush starts the second invocation of an effect whose first invocation
\* returned a cleanup function
C20_Witness ==
    /\ evt.name = "update"
    /\ ~evt.flag
    /\ cstack # <<>>
    /\ Top.from = "flush"
    /\ onCleanup[evt.fx] = "ok"
    /\ cleanupCalls[evt.fx] = 1
    /\ bodyCalls[evt.fx] = 1

\* ------------------------------------------- the stored cleanup function
\* C21: the cleanup function an effect has stored is invoked at most once:
\* the cleanup() in the catch of a failed re-run does not invoke the function
\* that the cleanup() at the start of the same update() has invoked, and a
\* cancel or abort that follows at once a cancel or abort of the same effect
\* which invoked it does not invoke it again.
C21_CleanupInvokedOnce ==
    /\ [][evt'.name = "catch" => cleanupCalls'[evt'.fx] = cleanupCalls[evt'.fx]]_vars
    /\ [][(/\ evt.name \in {"cancel", "abort"}
           /\ evt.flag
           /\ evt'.name \in {"cancel", "abort"}
           /\ evt'.fx = evt.fx) => ~evt'.flag]_vars

\* C21 (what the code guarantees): one call of cleanup() invokes the stored
\* function once, and nothing is invoked for an effect that has stored none.
C21_CleanupInvokedOncePerCall ==
    [][\A e \in Effects :
        /\ cleanupCalls'[e] <= (IF AtTop THEN 0 ELSE cleanupCalls[e]) + 1
        /\ onCleanup[e] = "none" => cleanupCalls'[e] <= cleanupCalls[e]]_vars

\* ------------------------------------------- a cleanup function that throws
\* the effects whose function returns a cleanup function that throws
ThrowingCleanups == {e \in CreatedEffects : fxConf[e].ret = "throws"}

RECURSIVE SumOver(_, _)
SumOver(f, S) == IF S = {} THEN 0
                 ELSE LET x == CHOOSE y \in S : TRUE IN f[x] + SumOver(f, S \ {x})

\* C22: a failure of a cleanup function raises nothing: in every operation
\* the messages logged are as many as the invocations of the cleanup
\* functions that throw; the cancel, abort or update() that invoked one ends
\* without an exception, and the update() has started the body; the
\* cleanup() in the catch of update() leaves the exception in flight as it is.
C22_CleanupFailureIsLogged ==
    /\ [](errorLog = SumOver(cleanupCalls, ThrowingCleanups))
    /\ [][(evt'.name \in {"cancel", "abort"} /\ evt'.flag) => exc' = "none"]_vars
    /\ [][(evt'.name = "update" /\ ~evt'.flag /\ onCleanup[evt'.fx] = "throws")
            => /\ exc' = "none"
               /\ errorLog' = errorLog + 1
               /\ bodyCalls'[evt'.fx] = bodyCalls[evt'.fx] + 1
               /\ cstack'[Len(cstack')].phase = "body"]_vars
    /\ [][evt'.name \in {"catch", "teardown"} => exc' = exc]_vars

\* a write makes a flush re-run an effect whose cleanup function throws:
\* one message, no exception, the body running
C22_Witness ==
    /\ evt.name = "update"
    /\ ~evt.flag
    /\ cstack # <<>>
    /\ Top.from = "flush"
    /\ onCleanup[evt.fx] = "throws"
    /\ errorLog = 1
    /\ exc = "none"
    /\ op.kind = "update"

\* ------------------------------------------------- an update() that raises
\* the effect holds no edge, in either direction
NoEdges(e) == fxDeps[e] = {} /\ \A s \in AllSignals : e \notin Range(sigDeps[s])

\* C23: when update() of an effect ends by raising (its catch block, or the
\* cyclic check) the effect holds no edge after the step and the exception is
\* in flight in its caller; #flush, untracked and the update() of an
\* enclosing effect pass the exception on unchanged, one call at a time, and
\* add no edge on the way, so it arrives in the user code that called the
\* write or the creation.
C23_RaisingUpdateLeavesNoEdges ==
    /\ [][(evt'.name = "catch" \/ (evt'.name = "update" /\ evt'.flag))
            => /\ fxDeps'[evt'.fx] = {}
               /\ \A s \in AllSignals : evt'.fx \notin Range(sigDeps'[s])
               /\ exc' # "none"
               /\ cstack' = Callers]_vars
    /\ [][(cstack # <<>> /\ exc # "none" /\ Top.kind \in {"update", "flush", "untracked"})
            => /\ exc' = exc
               /\ cstack' = Callers
               /\ \A e \in Effects : fxDeps'[e] \subseteq fxDeps[e]
               /\ \A s \in AllSignals : Range(sigDeps'[s]) \subseteq Range(sigDeps[s])]_vars
    /\ [](\A i \in 1..Len(cstack) :
            (cstack[i].kind = "update" /\ cstack[i].phase = "start") => exc = "none")

\* a write has run an effect that had read a signal and then threw: the
\* exception is with the caller of the write and the effect holds no edge
C23_Witness ==
    /\ AtTop
    /\ exc = "user"
    /\ op.kind = "update"
    /\ \E e \in op.targets :
          /\ bodyCalls[e] = 1
          /\ readInRun[e] # {}
          /\ NoEdges(e)
          /\ ~cancelled[e]

\* ------------------------------------------- a memo that computes the same
\* C24: when the function of a memo writes a value equal to the one the memo
\* holds, the write changes no value, inserts nothing into the pending set
\* and calls no #flush; and an effect enters the pending set only in a
\* changing write to a signal that has it as a dependency, so the effects
\* that read the memo are not run for it.
C24_EqualMemoDoesNotNotify ==
    /\ [][(/\ evt'.name = "write"
           /\ evt'.fx \in Effects
           /\ IsMemo(evt'.fx)
           /\ evt'.sig = Hidden(evt'.fx)
           /\ ~evt'.flag)
            => /\ UNCHANGED <<value, sigDeps, pendingEffects>>
               /\ Len(cstack') = Len(cstack)]_vars
    /\ [][\A e \in Effects :
            (e \in Range(pendingEffects') /\ e \notin Range(pendingEffects))
                => /\ evt'.name \in WriteEvents
                   /\ evt'.flag
                   /\ e \in Range(sigDeps[evt'.sig])]_vars

\* after a changing write to a signal, a memo that an effect reads has been
\* recomputed to the value it had
C24_Witness ==
    /\ evt.name = "write"
    /\ evt.fx \in Effects
    /\ IsMemo(evt.fx)
    /\ evt.sig = Hidden(evt.fx)
    /\ ~evt.flag
    /\ sigDeps[evt.sig] # <<>>
    /\ op.kind = "update"
    /\ op.changed
    /\ bodyCalls[evt.fx] = 1

\* ------------------------------------------------ memos at quiescence
\* the memos that compute: created with a token that had not fired
LiveMemos == {m \in CreatedEffects : IsMemo(m) /\ token[m] # "aborted"}

\* no operation is in progress and no batch is open
Quiescent == AtTop /\ batchLevel = 0

\* the compute function of memo m applied to the values that the signals
\* and memos it reads hold now
RECURSIVE ComputeNow(_, _, _)
ComputeNow(prog, i, acc) ==
    IF i > Len(prog) \/ prog[i].op = "write"
    THEN acc
    ELSE IF prog[i].op = "read" \/ (prog[i].op = "readIf" /\ acc = prog[i].k)
    THEN ComputeNow(prog, i + 1, Add(acc, value[prog[i].sig]))
    ELSE ComputeNow(prog, i + 1, acc)
MemoNow(m) == ComputeNow(fxConf[m].prog, 1, 0)

\* C25: whenever no operation is in progress and no batch is open, every
\* memo whose compute function does not throw holds its compute function
\* applied to the current values of the signals (and memos) it reads.
C25_QuiescentMemos ==
    Quiescent => \A m \in LiveMemos : ~Throws(m) => value[Hidden(m)] = MemoNow(m)

\* C25 (what the code guarantees): the same, in a store where no call has
\* raised (an acyclic graph in which no function throws) and no effect has
\* been re-run with tracking off by a write made inside untracked.
C25_QuiescentMemosNoRaise ==
    (Quiescent /\ AcyclicGraph /\ NoThrowingBody /\ NoThrowingReader /\ NoWritingReader)
        => \A m \in LiveMemos : value[Hidden(m)] = MemoNow(m)

\* ------------------------------------------------ pending means run once
\* #pendingEffects holds each effect once
PendingIsSet == Cardinality(Range(pendingEffects)) = Len(pendingEffects)

\* C26: the pending set holds an effect at most once and no write takes an
\* effect out of it, whatever value it writes; when a batch of writes has
\* returned (acyclic graph, no function throws) every plain effect that was
\* pending at its exit has run exactly once.
C26_PendingRunsOnce ==
    /\ [] PendingIsSet
    /\ [][evt'.name = "write" => Range(pendingEffects) \subseteq Range(pendingEffects')]_vars
    /\ []((BatchDone /\ exc = "none" /\ op.writesOnly /\ AcyclicGraph /\ NoThrowingBody)
            => \A e \in PlainEffects \cap op.targets : bodyCalls[e] = 1)

\* C26 (what the code guarantees): the same, when no plain effect writes a
\* signal.
C26_PendingReaderRunsOnce ==
    /\ [] PendingIsSet
    /\ [][evt'.name = "write" => Range(pendingEffects) \subseteq Range(pendingEffects')]_vars
    /\ []((BatchDone /\ exc = "none" /\ op.writesOnly /\ AcyclicGraph /\ NoThrowingBody
            /\ NoWritingEffect)
            => \A e \in PlainEffects \cap op.targets : bodyCalls[e] = 1)

\* ------------------------------------------- equal() on cyclic objects
SelfRef(o) == \E k \in Keys : Get(o, k) = o

\* C27: every call of equal() returns within the calls of deepEqual that
\* the pairs of objects under its operands allow, whatever cycles the
\* operands contain, and a call that compares two distinct objects that
\* each reference themselves returns false.
C27_CyclesTerminateNotEqual ==
    call.fn # "none"
        => /\ ~call.overflow
           /\ call.calls <= CallLimit(call.a, call.b)
           /\ (call.a # call.b /\ SelfRef(call.a) /\ SelfRef(call.b)) => ~call.eq

C27_Witness ==
    /\ call.fn = "equal"
    /\ call.maxDepth = Infinity
    /\ call.a # call.b
    /\ \E k \in Keys : Get(call.a, k) = call.a /\ Get(call.b, k) = call.b
    /\ OwnKeys(call.a) = OwnKeys(call.b)
    /\ ~call.eq
    /\ call.calls = 2

\* ------------------------------------------------- equal() on records
IsRecord(o) == IsObject(o) /\ objects[o].kind = "Object"
HoldsUndefined(o) == \E k \in OwnKeys(o) : objects[o].props[k] = Undefined
\* the properties, of any object, that refer to o
Referrers(o) == {pk \in ObjIds \X Keys : objects[pk[1]].props[pk[2]] = o}
NoSharedObject == \A o \in ObjIds : Cardinality(Referrers(o)) <= 1

\* what the comparison of two records is said to return
RecordsEqual(a, b) ==
    /\ OwnKeys(a) = OwnKeys(b)
    /\ \A k \in OwnKeys(a) : equal(Get(a, k), Get(b, k), Infinity).eq

\* C28: for two records a and b, equal(a, b) returns true exactly if they
\* have the same own keys and equal values under every key; in particular
\* records with as many keys but other keys are not equal.
C28_RecordsByKeysAndValues ==
    (call.fn = "equal" /\ call.maxDepth = Infinity /\ IsRecord(call.a) /\ IsRecord(call.b))
        => (call.eq <=> RecordsEqual(call.a, call.b))

\* C28, for records none of whose properties holds undefined and whose
\* nested objects are each referred to by one property only; and, for all
\* records, equal records have equal values under every key of the first
C28_RecordsByKeysAndValuesPlain ==
    (call.fn = "equal" /\ call.maxDepth = Infinity /\ IsRecord(call.a) /\ IsRecord(call.b))
        => /\ (~HoldsUndefined(call.a) /\ ~HoldsUndefined(call.b) /\ NoSharedObject)
                => (call.eq <=> RecordsEqual(call.a, call.b))
           /\ call.eq
                => \A k \in OwnKeys(call.a) :
                       equal(Get(call.a, k), Get(call.b, k), Infinity).eq

\* ------------------------------------------------------ the depth limit
ObjOnCycle(o) == o \in ObjReachedIn(ObjChildren(o), NObj)
ObjAcyclic(o) == \A p \in ObjReach(o) : ~ObjOnCycle(p)

RECURSIVE NestingLevel(_)
\* the nesting level of the deepest object under o, o itself being at level 1
NestingLevel(o) ==
    LET below == {NestingLevel(c) : c \in ObjChildren(o)}
    IN  IF below = {} THEN 1 ELSE 1 + CHOOSE n \in below : \A m \in below : m <= n

RECURSIVE SameStructure(_, _)
\* two values of acyclic graphs are structurally identical
SameStructure(x, y) ==
    IF ~IsObject(x) \/ ~IsObject(y)
    THEN x = y
    ELSE /\ objects[x].kind = objects[y].kind
         /\ OwnKeys(x) = OwnKeys(y)
         /\ \A k \in OwnKeys(x) : SameStructure(Get(x, k), Get(y, k))

\* two distinct, structurally identical, acyclic object graphs
IdenticalGraphs(a, b) ==
    /\ ObjAcyclic(a)
    /\ ObjAcyclic(b)
    /\ ObjReach(a) \cap ObjReach(b) = {}
    /\ SameStructure(a, b)

\* a call of deepEqual made at a depth where ++depth exceeds maxDepth
BeyondMaxDepth(x, y, maxDepth) ==
    deepEqual(x, y, maxDepth, maxDepth, [cache |-> {}, calls |-> 0, limit |-> MaxCalls])

\* what shallowlyEqual compares: the operands by identity, or their kinds,
\* their sizes and the values of their properties by identity
ShallowlySame(a, b) ==
    \/ a = b
    \/ /\ objects[a].kind = objects[b].kind
       /\ Cardinality(OwnKeys(a)) = Cardinality(OwnKeys(b))
       /\ \A k \in OwnKeys(a) : Get(a, k) = Get(b, k)

\* C29: two distinct, structurally identical, acyclic object graphs whose
\* deepest object is at level d are equal under maxDepth exactly if
\* maxDepth >= d; a pair of values compared beyond maxDepth is decided by
\* identity; shallowlyEqual is equal with maxDepth 1.
C29_DepthLimit ==
    /\ (call.fn = "equal" /\ IdenticalGraphs(call.a, call.b))
          => (call.eq <=> call.maxDepth >= NestingLevel(call.a))
    /\ \A x \in ObjIds \cup Prims, y \in ObjIds \cup Prims, m \in 1..MaxDepthArg :
          BeyondMaxDepth(x, y, m).eq = (x = y)
    /\ call.fn = "shallowlyEqual"
          => /\ call.eq = equal(call.a, call.b, 1).eq
             /\ call.eq <=> ShallowlySame(call.a, call.b)

\* C29, for graphs in which no object is referred to by two properties
C29_DepthLimitOfTrees ==
    /\ (call.fn = "equal" /\ IdenticalGraphs(call.a, call.b) /\ NoSharedObject)
          => (call.eq <=> call.maxDepth >= NestingLevel(call.a))
    /\ \A x \in ObjIds \cup Prims, y \in ObjIds \cup Prims, m \in 1..MaxDepthArg :
          BeyondMaxDepth(x, y, m).eq = (x = y)
    /\ call.fn = "shallowlyEqual"
          => /\ call.eq = equal(call.a, call.b, 1).eq
             /\ call.eq <=> ShallowlySame(call.a, call.b)

\* ------------------------------------------- reflexivity and symmetry
NoUndefinedProperty == \A o \in ObjIds : ~HoldsUndefined(o)

\* C30: equal is reflexive and symmetric: every value is equal to itself,
\* and a call equal(a, b) returns what equal(b, a) returns.
C30_ReflexiveSymmetric ==
    /\ \A x \in ObjIds \cup Prims, m \in DepthArgs : equal(x, x, m).eq
    /\ call.fn = "equal"
          => /\ equal(call.a, call.a, call.maxDepth).eq
             /\ call.eq = equal(call.b, call.a, call.maxDepth).eq

\* C30, symmetry being restricted to objects none of whose properties
\* holds undefined
C30_ReflexiveSymmetricDefined ==
    /\ \A x \in ObjIds \cup Prims, m \in DepthArgs : equal(x, x, m).eq
    /\ call.fn = "equal"
          => /\ equal(call.a, call.a, call.maxDepth).eq
             /\ NoUndefinedProperty
                   => call.eq = equal(call.b, call.a, call.maxDepth).eq

\* ------------------------------------------------- the updating flag
\* some call of #flush is inside its loop over the pending memos
InMemoPhase ==
    \E i \in 1..Len(cstack) :
        cstack[i].kind = "flush" /\ cstack[i].phase \in {"memo", "memoRet"}

NoThrowingMemo == \A e \in CreatedEffects : IsMemo(e) => ~Throws(e)

\* C31: #isUpdating is true only while a flush is in its memo phase: in
\* every state in which no flush is in its memo phase the flag is false,
\* also after the update of a memo has raised inside the memo phase.
C31_UpdatingOnlyInMemoPhase == isUpdating => InMemoPhase

\* C31, for stores none of whose memos can raise
C31_UpdatingOnlyInMemoPhaseNoRaise ==
    NoThrowingMemo => (isUpdating <=> InMemoPhase)

\* --------------------------------------------------- the observer stack
\* the effects whose update() has pushed them and not yet popped them, in
\* call order: the frames of update() that are inside the try block
ExecutingBodies ==
    LET inTry == SelectSeq(cstack, LAMBDA f : f.kind = "update" /\ f.phase = "body")
    IN  [i \in 1..Len(inTry) |-> inTry[i].fx]

\* C32: #runningEffects holds exactly the effects whose bodies are being
\* executed, in call order and each once; it is empty whenever no body is
\* being executed, also after a body failure or a cyclic dependency error
\* has propagated out of nested runs.
C32_ObserverStackIsBodies ==
    /\ runningEffects = ExecutingBodies
    /\ Cardinality(Range(runningEffects)) = Len(runningEffects)
    /\ AtTop => runningEffects = <<>>

\* reached: an exception has left two nested runs and the stack is empty
C32_Witness ==
    /\ AtTop
    /\ exc # "none"
    /\ runningEffects = <<>>
    /\ Cardinality({e \in CreatedEffects : bodyCalls[e] > 0}) >= 2
    /\ evt.name \in {"unwindFlush", "catch"}

\* ------------------------------------- memos pended in the memo phase
PendingMemos == {e \in Range(pendingEffects) : IsMemo(e)}

\* a call of #flush that entered the memo phase returns: after the memo
\* loop when a batch is open, after the effect loop otherwise
FlushReturns(e) == (e.name = "memoDone" /\ e.flag) \/ e.name = "flushReturn"

\* C33: the effects that the hidden-signal write of a memo inserts into
\* the pending set during the memo phase are handled by the same flush: when
\* a call of #flush that ran the memo phase returns, no memo is pending,
\* also when a batch is open.
C33_MemoPhaseDrainsMemos ==
    [][FlushReturns(evt') => PendingMemos' = {}]_vars

\* C33, for stores in which no memo reads another memo, and for every
\* store when no batch is open
C33_MemoPhaseDrainsMemosDepthOne ==
    /\ [][(FlushReturns(evt') /\ MemosDepthOne) => PendingMemos' = {}]_vars
    /\ [][(FlushReturns(evt') /\ batchLevel = 0) => PendingMemos' = {}]_vars

\* ------------------------------------------------- first-pended order
Precedes(q, x, y) == \E i \in 1..Len(q) : \E j \in 1..Len(q) : i < j /\ q[i] = x /\ q[j] = y

\* from q to r the elements that stay keep their order and the elements
\* that come are behind them
KeepsOrder(q, r) ==
    /\ \A x \in Range(q) \cap Range(r) : \A y \in Range(q) \cap Range(r) :
           Precedes(q, x, y) => Precedes(r, x, y)
    /\ \A x \in Range(q) \cap Range(r) : \A y \in Range(r) \ Range(q) : Precedes(r, x, y)

\* the list r is in the order of the set q
InOrderOf(r, q) ==
    /\ Range(r) \subseteq Range(q)
    /\ \A x \in Range(r) : \A y \in Range(r) : Precedes(r, x, y) => Precedes(q, x, y)

IsFlushLoop(f) == f.kind = "flush" /\ f.phase \in {"memo", "memoRet", "effects"}
SameLoop(f, g) ==
    /\ IsFlushLoop(f) /\ IsFlushLoop(g)
    /\ (f.phase = "effects") = (g.phase = "effects")

\* C34: within each phase of a flush the effects are run in the order in
\* which they entered the pending set: an insertion never changes the
\* order of the effects that are pending (one that is pending keeps its
\* place), each phase takes its list in the order of the pending set, and
\* its loop calls update() for the elements of that list one after the other.
C34_FirstPendedOrder ==
    /\ [][KeepsOrder(pendingEffects, pendingEffects')]_vars
    /\ [][(evt'.name = "flush" /\ evt'.flag)
            => /\ InOrderOf(cstack'[Len(cstack')].list, pendingEffects)
               /\ cstack'[Len(cstack')].idx = 1]_vars
    /\ [][(evt'.name = "memoDone" /\ ~evt'.flag)
            => /\ cstack'[Len(cstack')].list = pendingEffects
               /\ cstack'[Len(cstack')].idx = 1]_vars
    /\ [][\A i \in 1..Len(cstack) :
            (i <= Len(cstack') /\ SameLoop(cstack[i], cstack'[i]))
                => /\ cstack'[i].list = cstack[i].list
                   /\ cstack'[i].idx \in {cstack[i].idx, cstack[i].idx + 1}]_vars
    /\ [][evt'.name \in {"memoCall", "effectCall"}
            => /\ IsFlushLoop(Top)
               /\ evt'.fx = Top.list[Top.idx]
               /\ Len(cstack') = Len(cstack) + 1
               /\ cstack'[Len(cstack')].kind = "update"
               /\ cstack'[Len(cstack')].fx = evt'.fx]_vars
    /\ [][\A i \in 1..Len(cstack) :
            (i <= Len(cstack') /\ SameLoop(cstack[i], cstack'[i])
                /\ cstack'[i].idx = cstack[i].idx + 1)
                => (i = Len(cstack) /\ evt'.name \in {"memoRet", "effectCall"})]_vars

\* reached: the effect loop of the flush at the exit of a batch calls the
\* second effect of its list, the first being an effect that reads two
\* signals (so that the writes of a batch can insert it twice)
C34_Witness ==
    /\ evt.name = "effectCall"
    /\ op.kind = "batch"
    /\ Len(cstack) >= 2
    /\ cstack[Len(cstack) - 1].kind = "flush"
    /\ Len(cstack[Len(cstack) - 1].list) >= 2
    /\ cstack[Len(cstack) - 1].list[2] = evt.fx
    /\ \E s \in Signals : \E t \in Signals :
          /\ s # t
          /\ cstack[Len(cstack) - 1].list[1] \in Range(sigDeps[s]) \cap Range(sigDeps[t])

\* ------------------------------------------------- edges, both ways
ReadEvents == {"read", "untrackedRead"}

\* C35: an effect is a dependency of a signal exactly if it holds an
\* unlinker for that signal; an unlinker is handed out only together with
\* a new dependency, so there is one per edge and a repeated read adds
\* nothing; a read does not change the value of any signal.
C35_EdgesBothWays ==
    /\ [](\A e \in Effects : \A s \in AllSignals :
              e \in Range(sigDeps[s]) <=> s \in fxDeps[e])
    /\ [](\A s \in AllSignals : Cardinality(Range(sigDeps[s])) = Len(sigDeps[s]))
    /\ [][\A e \in Effects : \A s \in fxDeps'[e] \ fxDeps[e] :
              /\ e \notin Range(sigDeps[s])
              /\ sigDeps'[s] = Append(sigDeps[s], e)
              /\ evt'.name \in ReadEvents /\ evt'.sig = s]_vars
    /\ [][evt'.name \in ReadEvents => value' = value]_vars
    /\ [][(evt'.name \in ReadEvents /\ evt'.fx \in Effects
              /\ evt'.fx \in Range(sigDeps[evt'.sig]))
            => UNCHANGED <<sigDeps, fxDeps>>]_vars

\* reached: the second read of a signal in one run has returned
C35_Witness ==
    /\ evt.name = "read"
    /\ evt.flag
    /\ evt.fx \in CreatedEffects
    /\ cstack # <<>> /\ Top.kind = "update" /\ Top.fx = evt.fx /\ Top.idx = 3
    /\ fxConf[evt.fx].prog[1] = Rd(evt.sig)
    /\ fxConf[evt.fx].prog[2] = Rd(evt.sig)
    /\ fxDeps[evt.fx] = {evt.sig}
    /\ evt.fx \in Range(sigDeps[evt.sig])

\* ---------------------------------------- a pair reached a second time
\* C36: only a pair whose comparison is in progress cuts the comparison
\* short: two distinct, acyclic, structurally identical operands compare
\* equal (without depth limit), also when a pair of nested objects is
\* reached a second time through another property.
C36_SharedPairsEqual ==
    (call.fn = "equal" /\ call.maxDepth = Infinity /\ IdenticalGraphs(call.a, call.b))
        => call.eq

\* C36, for operands in which no object is referred to by two properties
C36_UnsharedPairsEqual ==
    (call.fn = "equal" /\ call.maxDepth = Infinity /\ IdenticalGraphs(call.a, call.b)
        /\ NoSharedObject)
        => call.eq

\* ------------------------------------------- nothing is left pending
\* C37: when a top-level operation has returned normally (no batch is open
\* then), the pending set is empty.
C37_NothingLeftPending ==
    (AtTop /\ exc = "none" /\ op.kind # "none") => pendingEffects = <<>>

\* C37, for operations that return while #isUpdating is false (no earlier
\* flush was left by an exception of a memo); then also after an operation
\* that raised
C37_NothingLeftPendingUnlessStuck ==
    (AtTop /\ ~isUpdating) => pendingEffects = <<>>

\* ----------------------------------- a plain effect raises in a flush
\* an exception is leaving the effect loop of the call of #flush on top
EffectLoopRaises == Unwinding("flush") /\ Top.phase = "effects"
\* the effect whose update() raised, and those behind it in the snapshot
Raiser == Top.list[Top.idx - 1]
Followers == {Top.list[i] : i \in Top.idx..Len(Top.list)}

Edgeless(e) == fxDeps[e] = {} /\ \A s \in AllSignals : e \notin Range(sigDeps[s])

====
